---- MODULE Spec2Model ----
(***************************************************************************)
(* Model of emu/extract_vhdl_tests.py: the testbench parser                *)
(* (parse_vhdl_testbench), the script builder (run_phase,                  *)
(* run_emulator_test_v2), the result verifier and the orchestrator (main). *)
(*                                                                         *)
(* A testbench line is a record                                            *)
(*   [hdr, rst, dirs, sigs]                                                *)
(* hdr  : the number of a "-- TEST n: name" marker on the line, 0 if none  *)
(* rst  : the line holds  rst_n <= '0'                                     *)
(* dirs : the poke / poke16 / wait_cycles / check_mem calls of the line,   *)
(*        in textual order, each [k, a, v, m]                              *)
(* sigs : the irq_n / nmi_n / abort_n assignments of the line, in textual  *)
(*        order, each <<signal, level>>                                    *)
(* A protocol command is a tuple: <<"w", addr, data>>, <<"reset">>,        *)
(* <<"nmi">>, <<"abort">>, <<"s", n>>, <<"irq", 1>>, <<"m", addr, 1>>,     *)
(* <<"r", n>>, <<"q">>.  The emulator's output is the sequence of its      *)
(* memory-dump lines, each <<addr, first byte>>.                           *)
(***************************************************************************)
EXTENDS Integers, Sequences, FiniteSets, TLC

VARIABLES
    \* parse_vhdl_testbench
    tests, current_test, current_phase, phase_has_reset, pending_pokes, i, line,
    \* run_emulator_test_v2 / run_phase
    test, script_lines, all_pokes_so_far, all_checks, phase_idx, output, results,
    check_idx, outcome,
    \* main
    emulator_exists, args, test_idx, total_passed, total_failed, exit_code,
    \* control
    pc,
    \* the input alphabet of the parser and history variables of the claims
    \* (history: the waits, checks and interrupt assignments read while the
    \* current phase was current)
    alphabet, deferred, history, test0, first_script, calls, verdicts

vars == <<tests, current_test, current_phase, phase_has_reset, pending_pokes, i, line,
          test, script_lines, all_pokes_so_far, all_checks, phase_idx, output, results,
          check_idx, outcome, emulator_exists, args, test_idx, total_passed, total_failed,
          exit_code, pc, alphabet, deferred, history, test0, first_script, calls,
          verdicts>>

parserVars == <<tests, current_test, current_phase, phase_has_reset, pending_pokes, i,
                line, deferred, history>>
runVars == <<test, script_lines, all_pokes_so_far, all_checks, phase_idx, output,
             results, check_idx, outcome, test0, first_script, calls>>
mainVars == <<emulator_exists, args, test_idx, total_passed, total_failed, exit_code,
              verdicts>>

----------------------------------------------------------------------------
\* Bounds of the model.
MaxLines == 5
MaxPhases == 2
MaxOut == 2
MaxCalls == 2
MaxTests == 2

\* Program constants.
DefaultCycles == 100
WaitThreshold == 10
RESET_LO == 65532
RESET_HI == 65533
IRQ_LO == 65534
IRQ_HI == 65535
STP_ADDR == 65280
NMI_LO == 65530
NMI_HI == 65531
ABORT_LO == 65528
ABORT_HI == 65529
WRAP == 65536

----------------------------------------------------------------------------
\* Python's None and an object reference that may be None.
None == <<>>
Some(x) == <<x>>

Max(a, b) == IF a >= b THEN a ELSE b
MinOf(S) == CHOOSE x \in S : \A y \in S : x <= y
MaxOf(S) == CHOOSE x \in S : \A y \in S : x >= y

\* class Phase, as constructed.
Phase ==
    [pokes |-> <<>>, checks |-> <<>>, cycles |-> DefaultCycles,
     irq_active |-> FALSE, nmi_active |-> FALSE, abort_active |-> FALSE,
     cycles_so_far |-> 0]

\* class Test, as constructed (the name is free text and is not modelled).
Test(number) == [number |-> number, phases |-> <<>>]

RECURSIVE ChecksOf(_)
\* Test.checks: the checks of all phases, in phase order.
ChecksOf(phases) ==
    IF phases = <<>> THEN <<>>
    ELSE Head(phases).checks \o ChecksOf(Tail(phases))

----------------------------------------------------------------------------
\* The parser: parse_vhdl_testbench.

Dir(k, a, v, m) == [k |-> k, a |-> a, v |-> v, m |-> m]
Line(hdr, rst, dirs, sigs) == [hdr |-> hdr, rst |-> rst, dirs |-> dirs, sigs |-> sigs]
NoLine == Line(0, FALSE, <<>>, <<>>)

RECURSIVE Poke16sOfHighFirst(_)
\* Poke16sOf with the high byte at addr and the low byte at addr + 1.
Poke16sOfHighFirst(ds) ==
    IF ds = <<>> THEN <<>>
    ELSE LET d == Head(ds) IN
         (IF d.k = "poke16"
          THEN << <<d.a, (d.v \div 256) % 256>>, <<d.a + 1, d.v % 256>> >>
          ELSE <<>>) \o Poke16sOfHighFirst(Tail(ds))

RECURSIVE Poke16sOf(_)
\* poke16_pattern.finditer: every word write gives its low byte at addr and
\* its high byte at addr + 1.
Poke16sOf(ds) ==
    IF ds = <<>> THEN <<>>
    ELSE LET d == Head(ds) IN
         (IF d.k = "poke16"
          THEN << <<d.a, d.v % 256>>, <<d.a + 1, (d.v \div 256) % 256>> >>
          ELSE <<>>) \o Poke16sOf(Tail(ds))

RECURSIVE PokesOf(_)
\* poke_pattern.finditer: poke_pattern does not match inside "poke16(".
PokesOf(ds) ==
    IF ds = <<>> THEN <<>>
    ELSE LET d == Head(ds) IN
         (IF d.k = "poke" THEN << <<d.a, d.v>> >> ELSE <<>>) \o PokesOf(Tail(ds))

\* 'poke16' in line.lower()
HasPoke16(l) == \E k \in DOMAIN l.dirs : l.dirs[k].k = "poke16"

\* pokes_on_line
PokesOnLine(l) ==
    Poke16sOf(l.dirs) \o (IF ~HasPoke16(l) THEN PokesOf(l.dirs) ELSE <<>>)

RECURSIVE WaitFoldScaledBudget(_, _)
\* WaitFold adding the scaled value to the budget as well.
WaitFoldScaledBudget(ph, ds) ==
    IF ds = <<>> THEN ph
    ELSE LET d == Head(ds)
             ph2 == IF d.k = "wait" /\ d.v > WaitThreshold
                    THEN [ph EXCEPT !.cycles_so_far = @ + (d.v \div 2),
                                    !.cycles = @ + (d.v \div 2)]
                    ELSE ph
         IN WaitFoldScaledBudget(ph2, Tail(ds))

RECURSIVE WaitFoldFromTen(_, _)
\* WaitFold counting a wait of exactly ten cycles.
WaitFoldFromTen(ph, ds) ==
    IF ds = <<>> THEN ph
    ELSE LET d == Head(ds)
             ph2 == IF d.k = "wait" /\ d.v >= WaitThreshold
                    THEN [ph EXCEPT !.cycles_so_far = @ + (d.v \div 2),
                                    !.cycles = @ + d.v]
                    ELSE ph
         IN WaitFoldFromTen(ph2, Tail(ds))

RECURSIVE WaitFold(_, _)
\* for match in cycles_pattern.finditer(line)
WaitFold(ph, ds) ==
    IF ds = <<>> THEN ph
    ELSE LET d == Head(ds)
             ph2 == IF d.k = "wait" /\ d.v > WaitThreshold
                    THEN [ph EXCEPT !.cycles_so_far = @ + (d.v \div 2),
                                    !.cycles = @ + d.v]
                    ELSE ph
         IN WaitFold(ph2, Tail(ds))

RECURSIVE CheckFoldNewestFirst(_, _)
\* CheckFold putting each check in front of the checks recorded before it.
CheckFoldNewestFirst(ph, ds) ==
    IF ds = <<>> THEN ph
    ELSE LET d == Head(ds)
             ph2 == IF d.k = "check"
                    THEN [ph EXCEPT !.checks =
                              << <<d.a, d.v, d.m, ph.cycles_so_far>> >> \o @]
                    ELSE ph
         IN CheckFoldNewestFirst(ph2, Tail(ds))

RECURSIVE CheckFold(_, _)
\* for match in check_pattern.finditer(line)
CheckFold(ph, ds) ==
    IF ds = <<>> THEN ph
    ELSE LET d == Head(ds)
             ph2 == IF d.k = "check"
                    THEN [ph EXCEPT !.checks =
                              Append(@, <<d.a, d.v, d.m, ph.cycles_so_far>>)]
                    ELSE ph
         IN CheckFold(ph2, Tail(ds))

\* pattern.search(line): the level of the first assignment to sig on the line.
FirstLevel(l, sig) ==
    LET idx == {k \in DOMAIN l.sigs : l.sigs[k][1] = sig}
    IN IF idx = {} THEN "none" ELSE l.sigs[MinOf(idx)][2]

\* The interrupt assignments of a line (active low).
SignalStep(ph, l) ==
    [ph EXCEPT !.irq_active = @ \/ FirstLevel(l, "irq") = "0",
               !.nmi_active = @ \/ FirstLevel(l, "nmi") = "0",
               !.abort_active = @ \/ FirstLevel(l, "abort") = "0"]

\* The phase after the pokes of a line: deferred when the phase has checks.
PokeStep(ph, l) ==
    IF PokesOnLine(l) # <<>> /\ ph.checks = <<>>
    THEN [ph EXCEPT !.pokes = @ \o PokesOnLine(l)]
    ELSE ph

\* pending_pokes after the pokes of a line.
PendingStep(pending, ph, l) ==
    IF PokesOnLine(l) # <<>> /\ ph.checks # <<>>
    THEN pending \o PokesOnLine(l)
    ELSE pending

\* The current phase after the directives of one line.
LineBody(ph, l) == SignalStep(CheckFold(WaitFold(PokeStep(ph, l), l.dirs), l.dirs), l)

\* Finalized appending the current phase only when it has writes.
FinalizedNeedsPokes(t, ph) ==
    IF ph.pokes # <<>>
    THEN [t EXCEPT !.phases = Append(@, ph)]
    ELSE t

\* Finalized appending the current phase even when it is empty.
FinalizedAlways(t, ph) == [t EXCEPT !.phases = Append(@, ph)]

\* "Save previous test" / "Save final test".
Finalized(t, ph) ==
    IF ph.pokes # <<>> \/ ph.checks # <<>>
    THEN [t EXCEPT !.phases = Append(@, ph)]
    ELSE t

RECURSIVE WritesAfterAssertion(_, _)
\* The byte writes of a line, in textual order, that follow an assertion of the
\* current phase (seen: the phase already has one).
WritesAfterAssertion(ds, seen) ==
    IF ds = <<>> THEN <<>>
    ELSE LET d == Head(ds)
             w == IF ~seen THEN <<>>
                  ELSE IF d.k = "poke" THEN << <<d.a, d.v>> >>
                  ELSE IF d.k = "poke16"
                       THEN << <<d.a, d.v % 256>>, <<d.a + 1, (d.v \div 256) % 256>> >>
                  ELSE <<>>
         IN w \o WritesAfterAssertion(Tail(ds), seen \/ d.k = "check")

\* The wait and check directives of a line, in textual order.
EventsOf(ds) == SelectSeq(ds, LAMBDA d : d.k \in {"wait", "check"})

\* The interrupt assignments of a line, in textual order, each with the
\* assigned level as v.
SignalEvents(sigs) ==
    [k \in DOMAIN sigs |-> Dir(sigs[k][1], 0, IF sigs[k][2] = "0" THEN 0 ELSE 1, "")]

\* A test header: the previous test is saved and a new one starts.
TestHeader(l) ==
    /\ pc = "parse"
    /\ i < MaxLines
    /\ l.hdr # 0
    /\ tests' = IF current_test # None
                THEN Append(tests, Finalized(current_test[1], current_phase[1]))
                ELSE tests
    /\ current_test' = Some(Test(l.hdr))
    /\ current_phase' = Some(Phase)
    /\ phase_has_reset' = FALSE
    /\ pending_pokes' = <<>>
    /\ deferred' = <<>>
    /\ history' = <<>>
    /\ i' = i + 1
    /\ line' = l
    /\ UNCHANGED <<pc, alphabet>>
    /\ UNCHANGED runVars
    /\ UNCHANGED mainVars

\* A line before the first test header.
OutsideTest(l) ==
    /\ pc = "parse"
    /\ i < MaxLines
    /\ l.hdr = 0
    /\ current_test = None
    /\ i' = i + 1
    /\ line' = l
    /\ UNCHANGED <<tests, current_test, current_phase, phase_has_reset, pending_pokes,
                   deferred, history, pc, alphabet>>
    /\ UNCHANGED runVars
    /\ UNCHANGED mainVars

\* ResetMarker with the flush decided by the phase's checks alone.
ResetMarkerOnChecks(l) ==
    /\ pc = "parse"
    /\ i < MaxLines
    /\ l.hdr = 0
    /\ current_test # None
    /\ l.rst
    /\ IF current_phase[1].checks # <<>>
       THEN /\ current_test' =
                   Some([current_test[1] EXCEPT !.phases = Append(@, current_phase[1])])
            /\ current_phase' = Some([Phase EXCEPT !.pokes = pending_pokes])
            /\ pending_pokes' = <<>>
            /\ deferred' = <<>>
            /\ history' = <<>>
       ELSE UNCHANGED <<current_test, current_phase, pending_pokes, deferred, history>>
    /\ phase_has_reset' = TRUE
    /\ line' = l
    /\ pc' = "body"
    /\ UNCHANGED <<tests, i, alphabet>>
    /\ UNCHANGED runVars
    /\ UNCHANGED mainVars

\* The reset marker of a line inside a test.
ResetMarker(l) ==
    /\ pc = "parse"
    /\ i < MaxLines
    /\ l.hdr = 0
    /\ current_test # None
    /\ l.rst
    /\ IF pending_pokes # <<>> /\ current_phase[1].checks # <<>>
       THEN /\ current_test' =
                   Some([current_test[1] EXCEPT !.phases = Append(@, current_phase[1])])
            /\ current_phase' = Some([Phase EXCEPT !.pokes = pending_pokes])
            /\ pending_pokes' = <<>>
            /\ deferred' = <<>>
            /\ history' = <<>>
       ELSE UNCHANGED <<current_test, current_phase, pending_pokes, deferred, history>>
    /\ phase_has_reset' = TRUE
    /\ line' = l
    /\ pc' = "body"
    /\ UNCHANGED <<tests, i, alphabet>>
    /\ UNCHANGED runVars
    /\ UNCHANGED mainVars

\* The pokes, waits, checks and interrupt assignments of line l.
Directives(l) ==
    /\ pending_pokes' = PendingStep(pending_pokes, current_phase[1], l)
    /\ current_phase' = Some(LineBody(current_phase[1], l))
    /\ deferred' = deferred \o
                     WritesAfterAssertion(l.dirs, current_phase[1].checks # <<>>)
    /\ history' = history \o EventsOf(l.dirs) \o SignalEvents(l.sigs)
    /\ i' = i + 1
    /\ line' = l
    /\ pc' = "parse"
    /\ UNCHANGED <<tests, current_test, phase_has_reset, alphabet>>
    /\ UNCHANGED runVars
    /\ UNCHANGED mainVars

\* A line inside a test that holds no reset marker.
PlainLine(l) ==
    /\ pc = "parse"
    /\ i < MaxLines
    /\ l.hdr = 0
    /\ current_test # None
    /\ ~l.rst
    /\ Directives(l)

\* The rest of a line that holds a reset marker.
AfterReset ==
    /\ pc = "body"
    /\ Directives(line)

\* EndOfInput returning the saved tests without the open one.
EndOfInputDropsOpen ==
    /\ pc = "parse"
    /\ pc' = "parsed"
    /\ UNCHANGED <<tests, current_test, current_phase, phase_has_reset, pending_pokes, i,
                   line, deferred, history, alphabet>>
    /\ UNCHANGED runVars
    /\ UNCHANGED mainVars

\* End of input: the final test is saved and the tests are returned.
EndOfInput ==
    /\ pc = "parse"
    /\ tests' = IF current_test # None
                THEN Append(tests, Finalized(current_test[1], current_phase[1]))
                ELSE tests
    /\ pc' = "parsed"
    /\ UNCHANGED <<current_test, current_phase, phase_has_reset, pending_pokes, i, line,
                   deferred, history, alphabet>>
    /\ UNCHANGED runVars
    /\ UNCHANGED mainVars

----------------------------------------------------------------------------
\* The lines the parser is run on.
L_test1 == Line(1, FALSE, <<>>, <<>>)
L_test2 == Line(2, FALSE, <<>>, <<>>)
L_reset == Line(0, TRUE, <<>>, <<>>)
L_pokeA == Line(0, FALSE, <<Dir("poke", 32768, 169, "")>>, <<>>)
L_pokeB == Line(0, FALSE, <<Dir("poke", 32769, 66, "")>>, <<>>)
L_wait == Line(0, FALSE, <<Dir("wait", 0, 30, "")>>, <<>>)
L_check == Line(0, FALSE, <<Dir("check", 512, 66, "a")>>, <<>>)
L_irq == Line(0, FALSE, <<>>, << <<"irq", "0">> >>)

CoreLines == {L_test1, L_test2, L_reset, L_pokeA, L_pokeB, L_wait, L_check, L_irq}

\* The values of the variables a specification does not use.
IdleRun ==
    /\ test = Test(0)
    /\ script_lines = <<>>
    /\ all_pokes_so_far = {}
    /\ all_checks = <<>>
    /\ phase_idx = 0
    /\ output = <<>>
    /\ results = [passed |-> 0, failed |-> 0, errors |-> <<>>]
    /\ check_idx = 0
    /\ outcome = "none"
    /\ test0 = Test(0)
    /\ first_script = <<>>
    /\ calls = 0

IdleMain ==
    /\ emulator_exists = TRUE
    /\ args = [list |-> FALSE, test |-> {}]
    /\ test_idx = 0
    /\ total_passed = 0
    /\ total_failed = 0
    /\ exit_code = -1
    /\ verdicts = <<>>

ParserStart ==
    /\ tests = <<>>
    /\ current_test = None
    /\ current_phase = None
    /\ phase_has_reset = FALSE
    /\ pending_pokes = <<>>
    /\ i = 0
    /\ line = NoLine
    /\ deferred = <<>>
    /\ history = <<>>

InitParse ==
    /\ ParserStart
    /\ IdleRun
    /\ IdleMain
    /\ pc = "parse"
    /\ alphabet = CoreLines

NextParse ==
    \/ \E l \in alphabet : TestHeader(l)
    \/ \E l \in alphabet : OutsideTest(l)
    \/ \E l \in alphabet : ResetMarker(l)
    \/ \E l \in alphabet : PlainLine(l)
    \/ AfterReset
    \/ EndOfInput

SpecParse == InitParse /\ [][NextParse]_vars

\* The parser on lines of waits and checks: a long, an odd and a short wait, a
\* check followed by a wait on its line, and a short wait followed by a check.
L_wait15 == Line(0, FALSE, <<Dir("wait", 0, 15, "")>>, <<>>)
L_wait10 == Line(0, FALSE, <<Dir("wait", 0, 10, "")>>, <<>>)
L_checkwait ==
    Line(0, FALSE, <<Dir("check", 513, 66, "c"), Dir("wait", 0, 30, "")>>, <<>>)
L_waitcheck ==
    Line(0, FALSE, <<Dir("wait", 0, 10, ""), Dir("check", 512, 67, "b")>>, <<>>)

WaitLines ==
    {L_test1, L_reset, L_pokeA, L_wait, L_wait15, L_wait10, L_check, L_checkwait,
     L_waitcheck}

InitWaits ==
    /\ ParserStart
    /\ IdleRun
    /\ IdleMain
    /\ pc = "parse"
    /\ alphabet = WaitLines

SpecWaits == InitWaits /\ [][NextParse]_vars

\* The parser on lines of writes and interrupt assignments: two word writes on
\* a line (one of more than 16 bits, at 0xFFFE), a byte write and a word write
\* on a line, IRQ released, IRQ released and then asserted on a line, NMI and
\* ABORT asserted on a line.
L_words ==
    Line(0, FALSE, <<Dir("poke16", 65534, 74565, ""), Dir("poke16", 512, 4660, "")>>, <<>>)
L_mixed ==
    Line(0, FALSE, <<Dir("poke", 32768, 169, ""), Dir("poke16", 65532, 32768, "")>>, <<>>)
L_irqOff == Line(0, FALSE, <<>>, << <<"irq", "1">> >>)
L_irqPulse == Line(0, FALSE, <<>>, << <<"irq", "1">>, <<"irq", "0">> >>)
L_nmiAbort == Line(0, FALSE, <<>>, << <<"nmi", "0">>, <<"abort", "0">> >>)

DirectiveLines ==
    {L_test1, L_reset, L_check, L_pokeA, L_words, L_mixed, L_irq, L_irqOff, L_irqPulse,
     L_nmiAbort}

InitDirectives ==
    /\ ParserStart
    /\ IdleRun
    /\ IdleMain
    /\ pc = "parse"
    /\ alphabet = DirectiveLines

SpecDirectives == InitDirectives /\ [][NextParse]_vars

----------------------------------------------------------------------------
\* The script builder: run_phase.

AddressesOf(pokes) == {pokes[k][1] : k \in DOMAIN pokes}

NotResetVector(p) == p[1] \notin {RESET_LO, RESET_HI}

\* NormalizedPokes forcing the reset vector only where the phase wrote none.
NormalizedPokesKeepOwn(ph) ==
    LET original_addresses == AddressesOf(ph.pokes)
        lo == IF RESET_LO \notin original_addresses
              THEN << <<RESET_LO, 0>> >> ELSE <<>>
        hi == IF RESET_HI \notin original_addresses
              THEN << <<RESET_HI, 128>> >> ELSE <<>>
        irq == IF IRQ_LO \notin original_addresses
               THEN << <<IRQ_LO, 0>>, <<IRQ_HI, 255>> >> ELSE <<>>
        stp == IF STP_ADDR \notin original_addresses
               THEN << <<STP_ADDR, 219>> >> ELSE <<>>
    IN ph.pokes \o lo \o hi \o irq \o stp

\* phase.pokes as run_phase leaves it: the test's reset vector bytes removed,
\* the fixed ones appended, and the default IRQ vector and STP opcode appended
\* when the phase did not write them.
NormalizedPokes(ph) ==
    LET original_addresses == AddressesOf(ph.pokes)
        forced == SelectSeq(ph.pokes, NotResetVector)
                    \o << <<RESET_LO, 0>>, <<RESET_HI, 128>> >>
        irq == IF IRQ_LO \notin original_addresses
               THEN << <<IRQ_LO, 0>>, <<IRQ_HI, 255>> >> ELSE <<>>
        stp == IF STP_ADDR \notin original_addresses
               THEN << <<STP_ADDR, 219>> >> ELSE <<>>
    IN forced \o irq \o stp

\* FilteredPokes filtering whether the phase triggers an interrupt or not.
FilteredPokesAnyPhase(ph) ==
    LET original_addresses == AddressesOf(ph.pokes)
        Kept(p) == ~(/\ p[1] \in {NMI_LO, NMI_HI}
                     /\ ABORT_LO \in original_addresses
                     /\ ABORT_HI \in original_addresses)
    IN SelectSeq(ph.pokes, Kept)

\* FilteredPokes dropping the NMI vector of every interrupt phase.
FilteredPokesDropNmi(ph) ==
    LET uses_interrupts == ph.irq_active \/ ph.nmi_active \/ ph.abort_active
        Kept(p) == ~(uses_interrupts /\ p[1] \in {NMI_LO, NMI_HI})
    IN SelectSeq(ph.pokes, Kept)

\* filtered_pokes, from the phase whose pokes are already normalized.
FilteredPokes(ph) ==
    LET original_addresses == AddressesOf(ph.pokes)
        uses_interrupts == ph.irq_active \/ ph.nmi_active \/ ph.abort_active
        Kept(p) == ~(/\ uses_interrupts
                     /\ p[1] \in {NMI_LO, NMI_HI}
                     /\ ABORT_LO \in original_addresses
                     /\ ABORT_HI \in original_addresses)
    IN SelectSeq(ph.pokes, Kept)

RECURSIVE WriteCmdsNoMirror(_)
\* WriteCmds without the mirror writes.
WriteCmdsNoMirror(pokes) ==
    IF pokes = <<>> THEN <<>>
    ELSE << <<"w", Head(pokes)[1], Head(pokes)[2]>> >> \o WriteCmdsNoMirror(Tail(pokes))

RECURSIVE WriteCmdsMirrorAll(_)
\* WriteCmds mirroring every write, whatever its address.
WriteCmdsMirrorAll(pokes) ==
    IF pokes = <<>> THEN <<>>
    ELSE LET p == Head(pokes) IN
         << <<"w", p[1], p[2]>>, <<"w", p[1] + WRAP, p[2]>> >>
           \o WriteCmdsMirrorAll(Tail(pokes))

RECURSIVE WriteCmds(_)
\* The write commands of the filtered pokes, each address below 64 KiB mirrored.
WriteCmds(pokes) ==
    IF pokes = <<>> THEN <<>>
    ELSE LET p == Head(pokes) IN
         << <<"w", p[1], p[2]>> >>
           \o (IF p[1] < WRAP THEN << <<"w", p[1] + WRAP, p[2]>> >> ELSE <<>>)
           \o WriteCmds(Tail(pokes))

\* InterruptCmds with abort before nmi.
InterruptCmdsAbortFirst(ph) ==
    << <<"reset">> >>
      \o (IF ph.abort_active THEN << <<"abort">> >> ELSE <<>>)
      \o (IF ph.nmi_active THEN << <<"nmi">> >> ELSE <<>>)
      \o (IF ph.irq_active THEN << <<"s", 3>>, <<"irq", 1>> >> ELSE <<>>)

\* InterruptCmds raising the IRQ level before the three steps.
InterruptCmdsIrqFirst(ph) ==
    << <<"reset">> >>
      \o (IF ph.nmi_active THEN << <<"nmi">> >> ELSE <<>>)
      \o (IF ph.abort_active THEN << <<"abort">> >> ELSE <<>>)
      \o (IF ph.irq_active THEN << <<"irq", 1>>, <<"s", 3>> >> ELSE <<>>)

\* reset, then the edge-triggered lines, then the IRQ level after three steps.
InterruptCmds(ph) ==
    << <<"reset">> >>
      \o (IF ph.nmi_active THEN << <<"nmi">> >> ELSE <<>>)
      \o (IF ph.abort_active THEN << <<"abort">> >> ELSE <<>>)
      \o (IF ph.irq_active THEN << <<"s", 3>>, <<"irq", 1>> >> ELSE <<>>)

RECURSIVE ReadCmds(_, _)
\* The reads of the checks recorded at cycle offset c, in their order.
ReadCmds(checks, c) ==
    IF checks = <<>> THEN <<>>
    ELSE (IF Head(checks)[4] = c THEN << <<"m", Head(checks)[1], 1>> >> ELSE <<>>)
           \o ReadCmds(Tail(checks), c)

RECURSIVE CheckpointCmdsNoFloor(_, _, _)
\* CheckpointCmds with inst_count = cycles_at // 3, not raised to 1.
CheckpointCmdsNoFloor(ph, keys, prev_inst) ==
    IF keys = {}
    THEN LET total_inst == Max(1, ph.cycles \div 3) IN
         IF prev_inst < total_inst THEN << <<"s", total_inst - prev_inst>> >> ELSE <<>>
    ELSE LET cycles_at == MinOf(keys)
             inst_count == cycles_at \div 3
             delta == inst_count - prev_inst
         IN (IF delta > 0 THEN << <<"s", delta>> >> ELSE <<>>)
              \o ReadCmds(ph.checks, cycles_at)
              \o CheckpointCmdsNoFloor(ph, keys \ {cycles_at}, inst_count)

RECURSIVE CheckpointCmdsEveryDelta(_, _, _)
\* CheckpointCmds emitting the step of every checkpoint, whatever its delta.
CheckpointCmdsEveryDelta(ph, keys, prev_inst) ==
    IF keys = {}
    THEN LET total_inst == Max(1, ph.cycles \div 3) IN
         IF prev_inst < total_inst THEN << <<"s", total_inst - prev_inst>> >> ELSE <<>>
    ELSE LET cycles_at == MinOf(keys)
             inst_count == Max(1, cycles_at \div 3)
             delta == inst_count - prev_inst
         IN << <<"s", delta>> >>
              \o ReadCmds(ph.checks, cycles_at)
              \o CheckpointCmdsEveryDelta(ph, keys \ {cycles_at}, inst_count)

RECURSIVE CheckpointCmdsFullFinal(_, _, _)
\* CheckpointCmds with a final step of the whole instruction budget.
CheckpointCmdsFullFinal(ph, keys, prev_inst) ==
    IF keys = {}
    THEN LET total_inst == Max(1, ph.cycles \div 3) IN
         IF prev_inst < total_inst THEN << <<"s", total_inst>> >> ELSE <<>>
    ELSE LET cycles_at == MinOf(keys)
             inst_count == Max(1, cycles_at \div 3)
             delta == inst_count - prev_inst
         IN (IF delta > 0 THEN << <<"s", delta>> >> ELSE <<>>)
              \o ReadCmds(ph.checks, cycles_at)
              \o CheckpointCmdsFullFinal(ph, keys \ {cycles_at}, inst_count)

RECURSIVE CheckpointCmds(_, _, _)
\* for cycles_at in sorted(checks_by_cycle.keys()), and the final step.
CheckpointCmds(ph, keys, prev_inst) ==
    IF keys = {}
    THEN LET total_inst == Max(1, ph.cycles \div 3) IN
         IF prev_inst < total_inst THEN << <<"s", total_inst - prev_inst>> >> ELSE <<>>
    ELSE LET cycles_at == MinOf(keys)
             inst_count == Max(1, cycles_at \div 3)
             delta == inst_count - prev_inst
         IN (IF delta > 0 THEN << <<"s", delta>> >> ELSE <<>>)
              \o ReadCmds(ph.checks, cycles_at)
              \o CheckpointCmds(ph, keys \ {cycles_at}, inst_count)

\* RunCmds stepping to the instruction budget whether the phase has checks or not.
RunCmdsAlwaysStep(ph) ==
    CheckpointCmds(ph, {ph.checks[k][4] : k \in DOMAIN ph.checks}, 0)

\* The step / read commands of a phase with checks, the run command of one without.
RunCmds(ph) ==
    IF ph.checks # <<>>
    THEN CheckpointCmds(ph, {ph.checks[k][4] : k \in DOMAIN ph.checks}, 0)
    ELSE << <<"r", ph.cycles>> >>

\* PhaseCmds with the reset before the writes.
PhaseCmdsResetFirst(ph) == InterruptCmds(ph) \o WriteCmds(FilteredPokes(ph)) \o RunCmds(ph)

\* The commands run_phase appends for a phase (its pokes already normalized).
PhaseCmds(ph) == WriteCmds(FilteredPokes(ph)) \o InterruptCmds(ph) \o RunCmds(ph)

RECURSIVE AllAddresses(_)
\* all_test_addresses
AllAddresses(phases) ==
    IF phases = <<>> THEN {}
    ELSE AddressesOf(Head(phases).pokes) \cup AllAddresses(Tail(phases))

\* The default vectors, in the order run_emulator_test_v2 tests them.
DefaultTable ==
    << <<RESET_LO, 0>>, <<RESET_HI, 128>>, <<IRQ_LO, 0>>, <<IRQ_HI, 255>>,
       <<STP_ADDR, 219>>, <<NMI_LO, 0>>, <<NMI_HI, 255>>, <<ABORT_LO, 0>>,
       <<ABORT_HI, 255>> >>

RECURSIVE DefaultCmds(_, _)
DefaultCmds(table, addresses) ==
    IF table = <<>> THEN <<>>
    ELSE (IF Head(table)[1] \notin addresses
          THEN << <<"w", Head(table)[1], Head(table)[2]>> >> ELSE <<>>)
           \o DefaultCmds(Tail(table), addresses)

\* DefaultVectors looking at the writes of the first phase only.
DefaultVectorsFirstPhase(t) == DefaultCmds(DefaultTable, AddressesOf(t.phases[1].pokes))

\* "Set up default vectors (only if test doesn't override them)".
DefaultVectors(t) == DefaultCmds(DefaultTable, AllAddresses(t.phases))

RECURSIVE DropCycles(_)
\* all_checks: (addr, expected, msg) of each check.
DropCycles(checks) ==
    IF checks = <<>> THEN <<>>
    ELSE << <<Head(checks)[1], Head(checks)[2], Head(checks)[3]>> >>
           \o DropCycles(Tail(checks))

----------------------------------------------------------------------------
\* The result verifier.

NoResults == [passed |-> 0, failed |-> 0, errors |-> <<>>]

\* re.search(pattern, output): the first dump line of the address, 0 if none.
SearchDump(addr, out) ==
    LET idx == {k \in DOMAIN out : out[k][1] = addr}
    IN IF idx = {} THEN 0 ELSE MinOf(idx)

\* VerifyOne recording an unreadable address without counting it as failed.
VerifyOneUnreadableUncounted(res, check, out) ==
    LET match == SearchDump(check[1], out) IN
    IF match # 0
    THEN LET actual == out[match][2] IN
         IF actual = check[2]
         THEN [res EXCEPT !.passed = @ + 1]
         ELSE [res EXCEPT !.failed = @ + 1,
                          !.errors = Append(@, <<"mismatch", check[3], check[2], actual>>)]
    ELSE [res EXCEPT !.errors = Append(@, <<"unreadable", check[3], check[1]>>)]

\* One iteration of "for addr, expected, msg in all_checks".
VerifyOne(res, check, out) ==
    LET match == SearchDump(check[1], out) IN
    IF match # 0
    THEN LET actual == out[match][2] IN
         IF actual = check[2]
         THEN [res EXCEPT !.passed = @ + 1]
         ELSE [res EXCEPT !.failed = @ + 1,
                          !.errors = Append(@, <<"mismatch", check[3], check[2], actual>>)]
    ELSE [res EXCEPT !.failed = @ + 1,
                     !.errors = Append(@, <<"unreadable", check[3], check[1]>>)]

\* TimeoutResults counting only the checks of the last phase.
TimeoutResultsLastPhase(checks) ==
    [passed |-> 0, failed |-> Len(test.phases[Len(test.phases)].checks),
     errors |-> << <<"Timeout">> >>]

\* except subprocess.TimeoutExpired
TimeoutResults(checks) ==
    [passed |-> 0, failed |-> Len(checks), errors |-> << <<"Timeout">> >>]

\* ExceptionResults counting no check as failed.
ExceptionResultsNoneFailed(checks) ==
    [passed |-> 0, failed |-> 0, errors |-> << <<"exception">> >>]

\* except Exception as e
ExceptionResults(checks) ==
    [passed |-> 0, failed |-> Len(checks), errors |-> << <<"exception">> >>]

----------------------------------------------------------------------------
\* run_emulator_test_v2, step by step.

\* The call, up to the default vectors; a test without phases returns at once.
Call ==
    /\ pc \in {"call", "returned"}
    /\ calls < MaxCalls
    /\ calls' = calls + 1
    /\ results' = NoResults
    /\ output' = <<>>
    /\ outcome' = "none"
    /\ check_idx' = 0
    /\ all_checks' = <<>>
    /\ all_pokes_so_far' = {}
    /\ phase_idx' = 0
    /\ IF test.phases = <<>>
       THEN /\ script_lines' = <<>>
            /\ pc' = "returned"
       ELSE /\ script_lines' = DefaultVectors(test)
            /\ pc' = "phases"
    /\ UNCHANGED <<test, test0, first_script, alphabet>>
    /\ UNCHANGED parserVars
    /\ UNCHANGED mainVars

\* One iteration of "for phase_idx, phase in enumerate(test.phases)".
PhaseLoop ==
    /\ pc = "phases"
    /\ phase_idx < Len(test.phases)
    /\ LET phase == [test.phases[phase_idx + 1] EXCEPT
                        !.pokes = NormalizedPokes(test.phases[phase_idx + 1])]
       IN /\ test' = [test EXCEPT !.phases[phase_idx + 1] = phase]
          /\ script_lines' = script_lines \o PhaseCmds(phase)
          /\ all_pokes_so_far' = all_pokes_so_far \cup AddressesOf(FilteredPokes(phase))
          /\ all_checks' = all_checks \o DropCycles(phase.checks)
    /\ phase_idx' = phase_idx + 1
    /\ UNCHANGED <<output, results, check_idx, outcome, test0, first_script, calls, pc,
                   alphabet>>
    /\ UNCHANGED parserVars
    /\ UNCHANGED mainVars

\* script_lines.append('q')
Quit ==
    /\ pc = "phases"
    /\ phase_idx = Len(test.phases)
    /\ script_lines' = Append(script_lines, <<"q">>)
    /\ first_script' = IF calls = 1 THEN script_lines' ELSE first_script
    /\ pc' = "subprocess"
    /\ UNCHANGED <<test, all_pokes_so_far, all_checks, phase_idx, output, results,
                   check_idx, outcome, test0, calls, alphabet>>
    /\ UNCHANGED parserVars
    /\ UNCHANGED mainVars

\* subprocess.run returns: the emulator has printed the dump lines out.
Completed(out) ==
    /\ pc = "subprocess"
    /\ output' = out
    /\ outcome' = "completed"
    /\ check_idx' = 0
    /\ pc' = "verify"
    /\ UNCHANGED <<test, script_lines, all_pokes_so_far, all_checks, phase_idx, results,
                   test0, first_script, calls, alphabet>>
    /\ UNCHANGED parserVars
    /\ UNCHANGED mainVars

\* One iteration of the verification loop.
VerifyCheck ==
    /\ pc = "verify"
    /\ check_idx < Len(all_checks)
    /\ results' = VerifyOne(results, all_checks[check_idx + 1], output)
    /\ check_idx' = check_idx + 1
    /\ UNCHANGED <<test, script_lines, all_pokes_so_far, all_checks, phase_idx, output,
                   outcome, test0, first_script, calls, pc, alphabet>>
    /\ UNCHANGED parserVars
    /\ UNCHANGED mainVars

\* return results
Return ==
    /\ pc = "verify"
    /\ check_idx = Len(all_checks)
    /\ pc' = "returned"
    /\ UNCHANGED runVars
    /\ UNCHANGED alphabet
    /\ UNCHANGED parserVars
    /\ UNCHANGED mainVars

\* subprocess.run raises TimeoutExpired.
TimeoutExpired ==
    /\ pc = "subprocess"
    /\ outcome' = "timeout"
    /\ results' = TimeoutResults(all_checks)
    /\ pc' = "returned"
    /\ UNCHANGED <<test, script_lines, all_pokes_so_far, all_checks, phase_idx, output,
                   check_idx, test0, first_script, calls, alphabet>>
    /\ UNCHANGED parserVars
    /\ UNCHANGED mainVars

\* subprocess.run raises another exception.
OtherException ==
    /\ pc = "subprocess"
    /\ outcome' = "exception"
    /\ results' = ExceptionResults(all_checks)
    /\ pc' = "returned"
    /\ UNCHANGED <<test, script_lines, all_pokes_so_far, all_checks, phase_idx, output,
                   check_idx, test0, first_script, calls, alphabet>>
    /\ UNCHANGED parserVars
    /\ UNCHANGED mainVars

----------------------------------------------------------------------------
\* The tests run_emulator_test_v2 is called on: phases as the parser builds them
\* (every phase but the last has checks, every phase but the first has pokes,
\* cycle offsets follow the waits).

PokeLists ==
    { << <<32768, 169>> >>,
      << <<32768, 169>>, <<RESET_LO, 52>>, <<RESET_HI, 18>> >>,
      << <<IRQ_LO, 16>>, <<STP_ADDR, 64>>, <<WRAP, 234>> >> }

\* wait_cycles(30) and no check; wait_cycles(30) and a check; wait and check twice
\* on one address with two expected values.
Timelines ==
    { [checks |-> <<>>, cycles |-> 130, cycles_so_far |-> 15],
      [checks |-> << <<513, 66, "c", 15>> >>, cycles |-> 130, cycles_so_far |-> 15],
      [checks |-> << <<512, 66, "a", 15>>, <<512, 67, "b", 30>> >>,
       cycles |-> 160, cycles_so_far |-> 30] }

NoFlags == [irq |-> FALSE, nmi |-> FALSE, abort |-> FALSE]

FlagSets ==
    { [irq |-> TRUE, nmi |-> FALSE, abort |-> FALSE],
      [irq |-> FALSE, nmi |-> TRUE, abort |-> TRUE] }

RunPhase(p, t, f) ==
    [pokes |-> p, checks |-> t.checks, cycles |-> t.cycles,
     irq_active |-> f.irq, nmi_active |-> f.nmi, abort_active |-> f.abort,
     cycles_so_far |-> t.cycles_so_far]

\* Every poke list with every timeline and no interrupt, and every timeline with
\* every interrupt setting on the plain poke list.
RunPhases ==
    { RunPhase(p, t, NoFlags) : p \in PokeLists, t \in Timelines }
      \cup { RunPhase(<< <<32768, 169>> >>, t, f) : t \in Timelines, f \in FlagSets }

PhaseSeqs(n) ==
    { s \in [1..n -> RunPhases] : \A k \in 1..(n - 1) : s[k].checks # <<>> }

RunTests ==
    { [number |-> 1, phases |-> s] : s \in UNION { PhaseSeqs(n) : n \in 0..MaxPhases } }

\* The dump lines the emulator may print.
OutLines == { <<512, 66>>, <<512, 67>>, <<513, 66>> }
Outputs == UNION { [1..n -> OutLines] : n \in 0..MaxOut }

IdleParse ==
    /\ tests = <<>>
    /\ current_test = None
    /\ current_phase = None
    /\ phase_has_reset = FALSE
    /\ pending_pokes = <<>>
    /\ i = 0
    /\ line = NoLine
    /\ deferred = <<>>
    /\ history = <<>>
    /\ alphabet = {}

InitRun ==
    /\ IdleParse
    /\ IdleMain
    /\ test \in RunTests
    /\ test0 = test
    /\ script_lines = <<>>
    /\ all_pokes_so_far = {}
    /\ all_checks = <<>>
    /\ phase_idx = 0
    /\ output = <<>>
    /\ results = NoResults
    /\ check_idx = 0
    /\ outcome = "none"
    /\ first_script = <<>>
    /\ calls = 0
    /\ pc = "call"

NextRun ==
    \/ Call
    \/ PhaseLoop
    \/ Quit
    \/ \E out \in Outputs : Completed(out)
    \/ VerifyCheck
    \/ Return
    \/ TimeoutExpired
    \/ OtherException

SpecRun == InitRun /\ [][NextRun]_vars

\* The builder on phases as the parser builds them: the writes of the vectors
\* and one at 0x10000, checks before any wait and after a wait of 11 cycles,
\* checks that share a cycle offset, and every interrupt setting; on one phase,
\* and on an interrupt phase followed by a phase without interrupt.
BuildPokeLists ==
    { << <<32768, 169>> >>,
      << <<NMI_LO, 16>>, <<NMI_HI, 32>>, <<RESET_LO, 52>>, <<RESET_HI, 18>> >>,
      << <<ABORT_LO, 1>>, <<ABORT_HI, 2>>, <<NMI_LO, 16>>, <<NMI_HI, 32>>,
         <<RESET_LO, 52>>, <<RESET_HI, 18>> >>,
      << <<IRQ_LO, 16>>, <<STP_ADDR, 64>>, <<WRAP, 234>> >>,
      << <<IRQ_HI, 18>> >> }

BuildTimelines ==
    { [checks |-> <<>>, cycles |-> 130, cycles_so_far |-> 15],
      [checks |-> << <<513, 66, "c", 15>> >>, cycles |-> 130, cycles_so_far |-> 15],
      [checks |-> << <<512, 66, "a", 0>>, <<513, 66, "c", 5>> >>,
       cycles |-> 111, cycles_so_far |-> 5],
      [checks |-> << <<512, 66, "a", 15>>, <<513, 66, "c", 15>>, <<512, 67, "b", 30>> >>,
       cycles |-> 160, cycles_so_far |-> 30] }

\* The interrupt settings that FlagSets leaves out.
MoreFlagSets ==
    { [irq |-> FALSE, nmi |-> TRUE, abort |-> FALSE],
      [irq |-> FALSE, nmi |-> FALSE, abort |-> TRUE],
      [irq |-> TRUE, nmi |-> TRUE, abort |-> FALSE],
      [irq |-> TRUE, nmi |-> FALSE, abort |-> TRUE],
      [irq |-> TRUE, nmi |-> TRUE, abort |-> TRUE] }

BuildPhases ==
    { RunPhase(p, t, f) :
        p \in BuildPokeLists, t \in BuildTimelines, f \in {NoFlags} \cup FlagSets }
      \cup { RunPhase(<< <<32768, 169>> >>, t, f) : t \in BuildTimelines, f \in MoreFlagSets }

BuildPairs ==
    { <<a, b>> : a \in { ph \in BuildPhases : /\ Len(ph.checks) = 3
                                               /\ Len(ph.pokes) = 6
                                               /\ (ph.irq_active \/ ph.nmi_active) },
                 b \in { ph \in BuildPhases : /\ ph.pokes[1][1] = IRQ_LO
                                               /\ ~ph.irq_active
                                               /\ ~ph.nmi_active } }

\* Two phases of which only the second writes the NMI vector.
LateVectorPairs ==
    { << RunPhase(<< <<32768, 169>> >>, t, NoFlags),
         RunPhase(<< <<NMI_LO, 16>>, <<NMI_HI, 32>> >>, t,
                  [irq |-> FALSE, nmi |-> TRUE, abort |-> FALSE]) >> :
        t \in { tl \in BuildTimelines : Len(tl.checks) = 1 } }

BuildTests ==
    { [number |-> 1, phases |-> <<ph>>] : ph \in BuildPhases }
      \cup { [number |-> 1, phases |-> s] : s \in BuildPairs \cup LateVectorPairs }

InitBuild ==
    /\ IdleParse
    /\ IdleMain
    /\ test \in BuildTests
    /\ test0 = test
    /\ script_lines = <<>>
    /\ all_pokes_so_far = {}
    /\ all_checks = <<>>
    /\ phase_idx = 0
    /\ output = <<>>
    /\ results = NoResults
    /\ check_idx = 0
    /\ outcome = "none"
    /\ first_script = <<>>
    /\ calls = 0
    /\ pc = "call"

SpecBuild == InitBuild /\ [][NextRun]_vars

----------------------------------------------------------------------------
\* run_emulator_test_v2 as one call, and main.

RECURSIVE NormalizedPhases(_)
\* The phases as the calls of run_phase leave them.
NormalizedPhases(phases) ==
    IF phases = <<>> THEN <<>>
    ELSE << [Head(phases) EXCEPT !.pokes = NormalizedPokes(Head(phases))] >>
           \o NormalizedPhases(Tail(phases))

RECURSIVE PhasesCmds(_)
PhasesCmds(phases) ==
    IF phases = <<>> THEN <<>>
    ELSE PhaseCmds(Head(phases)) \o PhasesCmds(Tail(phases))

\* script_lines of a test with phases.
ScriptOf(t) ==
    DefaultVectors(t) \o PhasesCmds(NormalizedPhases(t.phases)) \o << <<"q">> >>

RECURSIVE VerifyAll(_, _, _)
\* for addr, expected, msg in all_checks
VerifyAll(res, checks, out) ==
    IF checks = <<>> THEN res
    ELSE VerifyAll(VerifyOne(res, Head(checks), out), Tail(checks), out)

\* The results run_emulator_test_v2 returns when subprocess.run ends with oc.
RunEmulatorTestV2(t, oc, out) ==
    IF t.phases = <<>> THEN NoResults
    ELSE IF oc = "completed"
         THEN VerifyAll(NoResults, DropCycles(ChecksOf(t.phases)), out)
    ELSE IF oc = "timeout" THEN TimeoutResults(DropCycles(ChecksOf(t.phases)))
    ELSE ExceptionResults(DropCycles(ChecksOf(t.phases)))

\* t.number in args.test
Selected(ts, numbers) == SelectSeq(ts, LAMBDA t : t.number \in numbers)

\* AddUp keeping only the count of the last test.
AddUpLast(total, n) == n

\* total_passed += results['passed'], total_failed += results['failed']
AddUp(total, n) == total + n

\* "Check emulator exists": the binary is missing.
EmulatorMissing ==
    /\ pc = "main"
    /\ ~emulator_exists
    /\ exit_code' = 1
    /\ pc' = "exited"
    /\ UNCHANGED <<emulator_exists, args, test_idx, total_passed, total_failed, verdicts,
                   alphabet>>
    /\ UNCHANGED parserVars
    /\ UNCHANGED runVars

\* tests = parse_vhdl_testbench(TB_FILE)
ParseTestbench(ts) ==
    /\ pc = "main"
    /\ emulator_exists
    /\ tests' = ts
    /\ pc' = "parsed"
    /\ UNCHANGED <<current_test, current_phase, phase_has_reset, pending_pokes, i, line,
                   deferred, history, alphabet>>
    /\ UNCHANGED runVars
    /\ UNCHANGED mainVars

\* --list / --vhdl-only: the tests are printed and main returns.
ListTests ==
    /\ pc = "parsed"
    /\ args.list
    /\ exit_code' = 0
    /\ pc' = "exited"
    /\ UNCHANGED <<emulator_exists, args, test_idx, total_passed, total_failed, verdicts,
                   alphabet>>
    /\ UNCHANGED parserVars
    /\ UNCHANGED runVars

\* The --test filter, and the start of the loop over the tests.
SelectTests ==
    /\ pc = "parsed"
    /\ ~args.list
    /\ tests' = IF args.test # {} THEN Selected(tests, args.test) ELSE tests
    /\ IF args.test # {} /\ tests' = <<>>
       THEN /\ exit_code' = 1
            /\ pc' = "exited"
       ELSE /\ exit_code' = exit_code
            /\ pc' = "loop"
    /\ total_passed' = 0
    /\ total_failed' = 0
    /\ test_idx' = 0
    /\ UNCHANGED <<current_test, current_phase, phase_has_reset, pending_pokes, i, line,
                   deferred, history, alphabet, emulator_exists, args, verdicts>>
    /\ UNCHANGED runVars

\* A test without checks is skipped.
SkipTest ==
    /\ pc = "loop"
    /\ test_idx < Len(tests)
    /\ ChecksOf(tests[test_idx + 1].phases) = <<>>
    /\ test' = tests[test_idx + 1]
    /\ test_idx' = test_idx + 1
    /\ UNCHANGED <<script_lines, all_pokes_so_far, all_checks, phase_idx, output, results,
                   check_idx, outcome, test0, first_script, calls>>
    /\ UNCHANGED <<emulator_exists, args, total_passed, total_failed, exit_code, verdicts,
                   pc, alphabet>>
    /\ UNCHANGED parserVars

\* RunTest leaving the loop after a test with a failed check.
RunTestStopOnFailure(oc, out) ==
    /\ pc = "loop"
    /\ test_idx < Len(tests)
    /\ ChecksOf(tests[test_idx + 1].phases) # <<>>
    /\ LET t == tests[test_idx + 1]
           after == [t EXCEPT !.phases = NormalizedPhases(t.phases)]
       IN /\ test0' = t
          /\ test' = after
          /\ tests' = [tests EXCEPT ![test_idx + 1] = after]
          /\ script_lines' = ScriptOf(t)
          /\ all_checks' = DropCycles(ChecksOf(t.phases))
          /\ all_pokes_so_far' =
                UNION { AddressesOf(FilteredPokes(after.phases[k])) :
                          k \in DOMAIN after.phases }
          /\ phase_idx' = Len(t.phases)
          /\ results' = RunEmulatorTestV2(t, oc, out)
    /\ outcome' = oc
    /\ output' = IF oc = "completed" THEN out ELSE <<>>
    /\ check_idx' = IF oc = "completed" THEN Len(all_checks') ELSE 0
    /\ calls' = calls + 1
    /\ total_passed' = AddUp(total_passed, results'.passed)
    /\ total_failed' = AddUp(total_failed, results'.failed)
    /\ verdicts' = Append(verdicts, results')
    /\ test_idx' = IF results'.failed > 0 THEN Len(tests) ELSE test_idx + 1
    /\ UNCHANGED <<current_test, current_phase, phase_has_reset, pending_pokes, i, line,
                   deferred, history, alphabet, emulator_exists, args, exit_code,
                   first_script, pc>>

\* RunTest taken for a test without checks as well.
RunAnyTest(oc, out) ==
    /\ pc = "loop"
    /\ test_idx < Len(tests)
    /\ LET t == tests[test_idx + 1]
           after == [t EXCEPT !.phases = NormalizedPhases(t.phases)]
       IN /\ test0' = t
          /\ test' = after
          /\ tests' = [tests EXCEPT ![test_idx + 1] = after]
          /\ script_lines' = ScriptOf(t)
          /\ all_checks' = DropCycles(ChecksOf(t.phases))
          /\ all_pokes_so_far' =
                UNION { AddressesOf(FilteredPokes(after.phases[k])) :
                          k \in DOMAIN after.phases }
          /\ phase_idx' = Len(t.phases)
          /\ results' = RunEmulatorTestV2(t, oc, out)
    /\ outcome' = oc
    /\ output' = IF oc = "completed" THEN out ELSE <<>>
    /\ check_idx' = IF oc = "completed" THEN Len(all_checks') ELSE 0
    /\ calls' = calls + 1
    /\ total_passed' = AddUp(total_passed, results'.passed)
    /\ total_failed' = AddUp(total_failed, results'.failed)
    /\ verdicts' = Append(verdicts, results')
    /\ test_idx' = test_idx + 1
    /\ UNCHANGED <<current_test, current_phase, phase_has_reset, pending_pokes, i, line,
                   deferred, history, alphabet, emulator_exists, args, exit_code,
                   first_script, pc>>

\* A test with checks is run and its counts are added to the totals.
RunTest(oc, out) ==
    /\ pc = "loop"
    /\ test_idx < Len(tests)
    /\ ChecksOf(tests[test_idx + 1].phases) # <<>>
    /\ LET t == tests[test_idx + 1]
           after == [t EXCEPT !.phases = NormalizedPhases(t.phases)]
       IN /\ test0' = t
          /\ test' = after
          /\ tests' = [tests EXCEPT ![test_idx + 1] = after]
          /\ script_lines' = ScriptOf(t)
          /\ all_checks' = DropCycles(ChecksOf(t.phases))
          /\ all_pokes_so_far' =
                UNION { AddressesOf(FilteredPokes(after.phases[k])) :
                          k \in DOMAIN after.phases }
          /\ phase_idx' = Len(t.phases)
          /\ results' = RunEmulatorTestV2(t, oc, out)
    /\ outcome' = oc
    /\ output' = IF oc = "completed" THEN out ELSE <<>>
    /\ check_idx' = IF oc = "completed" THEN Len(all_checks') ELSE 0
    /\ calls' = calls + 1
    /\ total_passed' = AddUp(total_passed, results'.passed)
    /\ total_failed' = AddUp(total_failed, results'.failed)
    /\ verdicts' = Append(verdicts, results')
    /\ test_idx' = test_idx + 1
    /\ UNCHANGED <<current_test, current_phase, phase_has_reset, pending_pokes, i, line,
                   deferred, history, alphabet, emulator_exists, args, exit_code,
                   first_script, pc>>

\* sys.exit(0 if total_failed == 0 else 1)
Exit ==
    /\ pc = "loop"
    /\ test_idx = Len(tests)
    /\ exit_code' = IF total_failed = 0 THEN 0 ELSE 1
    /\ pc' = "exited"
    /\ UNCHANGED <<emulator_exists, args, test_idx, total_passed, total_failed, verdicts,
                   alphabet>>
    /\ UNCHANGED parserVars
    /\ UNCHANGED runVars

\* The tests main is run on: one check, no check, two phases with three checks,
\* and a header alone.
MainTests ==
    { [number |-> 1, phases |->
          << RunPhase(<< <<32768, 169>> >>,
                      [checks |-> << <<513, 66, "c", 15>> >>, cycles |-> 130,
                       cycles_so_far |-> 15], NoFlags) >>],
      [number |-> 2, phases |->
          << RunPhase(<< <<32768, 169>> >>,
                      [checks |-> <<>>, cycles |-> 130, cycles_so_far |-> 15],
                      NoFlags) >>],
      [number |-> 3, phases |->
          << RunPhase(<< <<32768, 169>> >>,
                      [checks |-> << <<512, 66, "a", 15>>, <<512, 67, "b", 30>> >>,
                       cycles |-> 160, cycles_so_far |-> 30], NoFlags),
             RunPhase(<< <<32768, 169>> >>,
                      [checks |-> << <<513, 66, "c", 15>> >>, cycles |-> 130,
                       cycles_so_far |-> 15], NoFlags) >>],
      [number |-> 4, phases |-> <<>>] }

MainTestLists == UNION { [1..n -> MainTests] : n \in 0..MaxTests }

\* What the emulator prints in the runs of main.
MainOutputs == { <<>>, << <<513, 66>> >>, << <<512, 66>>, <<512, 67>>, <<513, 66>> >> }

\* What subprocess.run does in the runs of main.
MainRuns ==
    { <<"completed", out>> : out \in MainOutputs }
      \cup { <<"timeout", <<>> >>, <<"exception", <<>> >> }

ArgSets == { [list |-> l, test |-> n] : l \in BOOLEAN, n \in { {}, {1, 3}, {9} } }

InitMain ==
    /\ IdleParse
    /\ IdleRun
    /\ emulator_exists \in BOOLEAN
    /\ args \in ArgSets
    /\ test_idx = 0
    /\ total_passed = 0
    /\ total_failed = 0
    /\ exit_code = -1
    /\ verdicts = <<>>
    /\ pc = "main"

NextMain ==
    \/ EmulatorMissing
    \/ \E ts \in MainTestLists : ParseTestbench(ts)
    \/ ListTests
    \/ SelectTests
    \/ SkipTest
    \/ \E r \in MainRuns : RunTest(r[1], r[2])
    \/ Exit

SpecMain == InitMain /\ [][NextMain]_vars

\* main is one sequential thread and every step of it returns (subprocess.run
\* is given timeout=30): a step that can be taken is taken.
SpecMainFair == SpecMain /\ WF_vars(NextMain)

----------------------------------------------------------------------------
\* The claims.

\* The index of the last dump line of an address in the output, 0 if none.
LastDump(addr, out) ==
    LET idx == {k \in DOMAIN out : out[k][1] = addr}
    IN IF idx = {} THEN 0 ELSE MaxOf(idx)

RECURSIVE LastDumpErrors(_, _)
\* The error entries of the assertions when each is compared against the last
\* dump line of its address.
LastDumpErrors(checks, out) ==
    IF checks = <<>> THEN <<>>
    ELSE LET c == Head(checks)
             last == LastDump(c[1], out)
             e == IF last = 0 THEN << <<"unreadable", c[3], c[1]>> >>
                  ELSE IF out[last][2] = c[2] THEN <<>>
                  ELSE << <<"mismatch", c[3], c[2], out[last][2]>> >>
         IN e \o LastDumpErrors(Tail(checks), out)

\* C1: after a normal run, each assertion has been compared against the LAST
\* dump line of its address in the output: it passed exactly when that line
\* carries the expected value, and a mismatch reports that line's value.
C1_LastDumpWins ==
    (pc = "returned" /\ outcome = "completed") =>
        /\ results.errors = LastDumpErrors(all_checks, output)
        /\ results.passed =
              Cardinality({ k \in DOMAIN all_checks :
                              /\ LastDump(all_checks[k][1], output) # 0
                              /\ output[LastDump(all_checks[k][1], output)][2]
                                   = all_checks[k][2] })

\* The data of the last write command to addr before position r, -1 if none.
LastWriteBefore(script, r, addr) ==
    LET idx == {k \in 1..(r - 1) : script[k][1] = "w" /\ script[k][2] = addr}
    IN IF idx = {} THEN -1 ELSE script[MaxOf(idx)][3]

\* C2: before every reset command of the script, the last write to 0xFFFC
\* carries 0x00 and the last write to 0xFFFD carries 0x80.
C2_ResetVectorForced ==
    \A r \in DOMAIN script_lines :
        script_lines[r][1] = "reset" =>
            /\ LastWriteBefore(script_lines, r, RESET_LO) = 0
            /\ LastWriteBefore(script_lines, r, RESET_HI) = 128

\* A finished script of a test that wrote its own reset vector in two phases.
C2_Witness ==
    /\ pc = "subprocess"
    /\ Len(test0.phases) = 2
    /\ \A k \in DOMAIN test0.phases :
          \E j \in DOMAIN test0.phases[k].pokes :
              test0.phases[k].pokes[j] = <<RESET_LO, 52>>

\* C3: the writes that follow an assertion of the current phase are exactly
\* the write list the next phase starts with, and none is left over when the
\* test is saved.
C3_CarryOver ==
    [][ /\ (pc = "parse" /\ pc' = "body" /\ deferred # <<>>) =>
              /\ current_test'[1].phases
                   = Append(current_test[1].phases, current_phase[1])
              /\ current_phase'[1].pokes = deferred
        /\ (Len(tests') > Len(tests)) => deferred = <<>> ]_vars

\* C4: a reset marker with pending writes closes the current phase and starts
\* a new one holding exactly the pending writes, with none pending after it;
\* a reset marker without pending writes changes neither the current phase nor
\* the phases of the test.
C4_ResetRule ==
    [][ (pc = "parse" /\ pc' = "body") =>
           IF pending_pokes # <<>>
           THEN /\ current_test'[1].phases
                     = Append(current_test[1].phases, current_phase[1])
                /\ current_phase'[1].pokes = pending_pokes
                /\ current_phase'[1].checks = <<>>
                /\ pending_pokes' = <<>>
           ELSE UNCHANGED <<current_test, current_phase, pending_pokes>> ]_vars

\* A reset marker has just flushed two pending writes into a second phase.
C4_Witness ==
    /\ pc = "body"
    /\ Len(current_test[1].phases) = 1
    /\ current_test[1].phases[1].checks # <<>>
    /\ Len(current_phase[1].pokes) = 2
    /\ current_phase[1].checks = <<>>
    /\ pending_pokes = <<>>

\* C5: once the script is built, the test is what it was before the call.
C5_NoSideEffect == (pc = "subprocess") => test = test0

\* C6: the script built by a second call on the same test is the script the
\* first call built.
C6_Deterministic == (pc = "subprocess" /\ calls >= 2) => script_lines = first_script

\* The outcome of one assertion against the output.
Outcome(check, out) ==
    IF SearchDump(check[1], out) = 0 THEN "unreadable"
    ELSE IF out[SearchDump(check[1], out)][2] = check[2] THEN "passed"
    ELSE "failed"

\* The number of verified assertions with the given outcome.
Count(kind) ==
    Cardinality({ k \in 1..check_idx : Outcome(all_checks[k], output) = kind })

RECURSIVE ErrorEntries(_, _)
\* One entry per assertion that did not pass: a mismatch with expected and
\* actual value, or an unreadable address.
ErrorEntries(checks, out) ==
    IF checks = <<>> THEN <<>>
    ELSE LET c == Head(checks)
             e == IF Outcome(c, out) = "passed" THEN <<>>
                  ELSE IF Outcome(c, out) = "failed"
                       THEN << <<"mismatch", c[3], c[2], out[SearchDump(c[1], out)][2]>> >>
                  ELSE << <<"unreadable", c[3], c[1]>> >>
         IN e \o ErrorEntries(Tail(checks), out)

\* C8 as claimed: passed counts the matches, failed counts the mismatches only,
\* and an unreadable assertion has its own entry without counting as failed.
C8_UnreadableNotFailed ==
    (pc \in {"verify", "returned"} /\ outcome = "completed") =>
        /\ results.passed = Count("passed")
        /\ results.failed = Count("failed")
        /\ results.errors = ErrorEntries(SubSeq(all_checks, 1, check_idx), output)

\* C8 as amended: every verified assertion has exactly one outcome; a mismatch
\* and an unreadable address have entries of different kinds, and both count
\* as failed.
C8_ThreeOutcomes ==
    (pc \in {"verify", "returned"} /\ outcome = "completed") =>
        /\ results.passed = Count("passed")
        /\ results.failed = Count("failed") + Count("unreadable")
        /\ results.passed + results.failed = check_idx
        /\ results.errors = ErrorEntries(SubSeq(all_checks, 1, check_idx), output)

\* A normal run has returned with a passed, a mismatched and an unreadable
\* assertion.
C8_Witness ==
    /\ pc = "returned"
    /\ outcome = "completed"
    /\ Count("passed") >= 1
    /\ Count("failed") >= 1
    /\ Count("unreadable") >= 1

\* C9: after a timeout the call has returned, with nothing passed, every
\* assertion of every phase failed and the single error 'Timeout'.
C9_Timeout ==
    (outcome = "timeout") =>
        /\ pc = "returned"
        /\ results = [passed |-> 0, failed |-> Len(ChecksOf(test0.phases)),
                      errors |-> << <<"Timeout">> >>]

\* A timeout on a test of two phases with assertions in both.
C9_Witness ==
    /\ outcome = "timeout"
    /\ pc = "returned"
    /\ Len(test.phases) = 2
    /\ \A k \in DOMAIN test.phases : test.phases[k].checks # <<>>

\* The commands appended by the step from this state to the next.
Emitted == SubSeq(script_lines', Len(script_lines) + 1, Len(script_lines'))

\* C10 as claimed: a phase without assertions emits exactly one run command,
\* r N with N the phase's cycle budget, and no step command.
C10_RunOnly ==
    [][ (/\ pc = "phases"
         /\ phase_idx' = phase_idx + 1
         /\ test.phases[phase_idx + 1].checks = <<>>) =>
            /\ Cardinality({k \in DOMAIN Emitted : Emitted[k][1] = "r"}) = 1
            /\ \A k \in DOMAIN Emitted :
                  Emitted[k][1] = "r" =>
                      Emitted[k] = <<"r", test.phases[phase_idx + 1].cycles>>
            /\ \A k \in DOMAIN Emitted : Emitted[k][1] # "s" ]_vars

\* C10 as amended: a phase without assertions emits exactly one run command,
\* r N with N its cycle budget, as its last command; it emits no step command
\* when its IRQ flag is clear, and when the flag is set its only step command
\* is the s 3 directly before irq 1.
C10_RunOnlyButIrqStep ==
    [][ (/\ pc = "phases"
         /\ phase_idx' = phase_idx + 1
         /\ test.phases[phase_idx + 1].checks = <<>>) =>
            /\ Cardinality({k \in DOMAIN Emitted : Emitted[k][1] = "r"}) = 1
            /\ Emitted[Len(Emitted)] = <<"r", test.phases[phase_idx + 1].cycles>>
            /\ IF test.phases[phase_idx + 1].irq_active
               THEN /\ Cardinality({k \in DOMAIN Emitted : Emitted[k][1] = "s"}) = 1
                    /\ \A k \in DOMAIN Emitted :
                          Emitted[k][1] = "s" =>
                              /\ Emitted[k] = <<"s", 3>>
                              /\ Emitted[k + 1] = <<"irq", 1>>
               ELSE \A k \in DOMAIN Emitted : Emitted[k][1] # "s" ]_vars

\* The commands of a second phase without assertions and with the IRQ flag
\* have been emitted.
C10_Witness ==
    /\ pc = "phases"
    /\ phase_idx = 2
    /\ test.phases[2].checks = <<>>
    /\ test.phases[2].irq_active

----------------------------------------------------------------------------
\* The cycle accounting of the parser.

RECURSIVE LongWaits(_)
\* The sum of the unscaled values of the waits above ten cycles among events.
LongWaits(events) ==
    IF events = <<>> THEN 0
    ELSE (IF Head(events).k = "wait" /\ Head(events).v > 10 THEN Head(events).v ELSE 0)
           + LongWaits(Tail(events))

\* C11 as claimed: the cycle budget of the current phase is the sum of the
\* unscaled waits above ten cycles read while it was current, 0 without one.
C11_BudgetIsWaitSum ==
    (current_phase # None) => current_phase[1].cycles = LongWaits(history)

\* C11 as amended: the cycle budget of the current phase is the 100 cycles a
\* new phase starts with plus the sum of the unscaled waits above ten cycles
\* read while it was current; without such a wait it is 100.
C11_BudgetIsDefaultPlusWaits ==
    (current_phase # None) => current_phase[1].cycles = 100 + LongWaits(history)

\* A phase that has read a wait of 30, one of 15 and one of 10 cycles.
C11_Witness ==
    /\ current_phase # None
    /\ \A v \in {30, 15, 10} :
          \E k \in DOMAIN history : history[k].k = "wait" /\ history[k].v = v
    /\ current_phase[1].cycles = 145

\* The position in events of the n-th check.
CheckPosition(events, n) ==
    CHOOSE p \in DOMAIN events :
        /\ events[p].k = "check"
        /\ Cardinality({q \in 1..p : events[q].k = "check"}) = n

\* C12: the cycle offset of every assertion of the current phase is half,
\* rounded down, of the sum of the waits above ten cycles that precede the
\* assertion in the text of the phase.
C12_OffsetIsHalfOfPriorWaits ==
    (current_phase # None) =>
        \A n \in DOMAIN current_phase[1].checks :
            current_phase[1].checks[n][4]
              = LongWaits(SubSeq(history, 1, CheckPosition(history, n) - 1)) \div 2

\* The line without its waits of ten cycles or fewer.
WithoutShortWaits(l) ==
    [l EXCEPT !.dirs = SelectSeq(@, LAMBDA d : ~(d.k = "wait" /\ d.v <= 10))]

\* The line holds nothing but waits of ten cycles or fewer.
ShortWaitsOnly(l) ==
    /\ l.dirs # <<>>
    /\ WithoutShortWaits(l) = NoLine

\* C13: reading a line of a test leaves the parser where reading the line
\* without its waits of ten cycles or fewer leaves it, and a line of nothing
\* but such waits changes no test, phase, budget, counter or offset.
C13_ShortWaitIgnored ==
    [][ (i' = i + 1 /\ line'.hdr = 0 /\ current_test # None) =>
           /\ current_phase' = Some(LineBody(current_phase[1], WithoutShortWaits(line')))
           /\ pending_pokes'
                = PendingStep(pending_pokes, current_phase[1], WithoutShortWaits(line'))
           /\ UNCHANGED <<tests, current_test>>
           /\ ShortWaitsOnly(line') =>
                 UNCHANGED <<tests, current_test, current_phase, pending_pokes>> ]_vars

\* A wait of ten cycles was read last, after a wait of 30 cycles and a check.
C13_Witness ==
    /\ current_phase # None
    /\ ShortWaitsOnly(line)
    /\ Len(history) >= 3
    /\ history[Len(history)].v = 10
    /\ current_phase[1].checks # <<>>
    /\ current_phase[1].cycles = 130
    /\ current_phase[1].cycles_so_far = 15

----------------------------------------------------------------------------
\* The cycle-to-step translation of run_phase.

\* The step from this state to the next is one call of run_phase, on Built.
BuildsPhase == pc = "phases" /\ phase_idx' = phase_idx + 1
Built == test.phases[phase_idx + 1]

RECURSIVE StepSum(_)
\* The instructions stepped by the step commands among cmds.
StepSum(cmds) ==
    IF cmds = <<>> THEN 0
    ELSE (IF Head(cmds)[1] = "s" THEN Head(cmds)[2] ELSE 0) + StepSum(Tail(cmds))

ResetPosition(cmds) == CHOOSE k \in DOMAIN cmds : cmds[k][1] = "reset"

\* The position in cmds of the n-th read command.
NthRead(cmds, n) ==
    CHOOSE p \in DOMAIN cmds :
        /\ cmds[p][1] = "m"
        /\ Cardinality({q \in 1..p : cmds[q][1] = "m"}) = n

\* The commands that follow the reset and the interrupt commands.
Translated(cmds) ==
    SubSeq(cmds,
           MaxOf({k \in DOMAIN cmds : cmds[k][1] \in {"reset", "nmi", "abort", "irq"}}) + 1,
           Len(cmds))

AtLeastOne(n) == IF n >= 1 THEN n ELSE 1

\* C14 as claimed: the n-th read command of a phase reads the address of its
\* n-th assertion, and the step commands between the phase's reset command and
\* that read add up to max(1, c div 3) for the assertion's cycle offset c.
C14_StepsToRead ==
    [][ BuildsPhase =>
          \A n \in DOMAIN Built.checks :
              /\ Emitted[NthRead(Emitted, n)] = <<"m", Built.checks[n][1], 1>>
              /\ StepSum(SubSeq(Emitted, ResetPosition(Emitted), NthRead(Emitted, n)))
                   = AtLeastOne(Built.checks[n][4] \div 3) ]_vars

\* C14 as amended: the step commands between the reset command and the read
\* of an assertion add up to max(1, c div 3), plus the three instructions of
\* the s 3 before irq 1 when the phase's IRQ flag is set.
C14_StepsToReadAfterIrq ==
    [][ BuildsPhase =>
          \A n \in DOMAIN Built.checks :
              /\ Emitted[NthRead(Emitted, n)] = <<"m", Built.checks[n][1], 1>>
              /\ StepSum(SubSeq(Emitted, ResetPosition(Emitted), NthRead(Emitted, n)))
                   = AtLeastOne(Built.checks[n][4] \div 3)
                       + (IF Built.irq_active THEN 3 ELSE 0) ]_vars

\* The commands of a phase with the IRQ flag and assertions at the cycle
\* offsets 0 and 5 have been emitted.
C14_Witness ==
    /\ pc = "phases"
    /\ phase_idx = 1
    /\ test.phases[1].irq_active
    /\ \E n \in DOMAIN test.phases[1].checks : test.phases[1].checks[n][4] = 0
    /\ \E n \in DOMAIN test.phases[1].checks : test.phases[1].checks[n][4] = 5

\* C15: every step command of a phase steps at least one instruction, and the
\* reads of two assertions that share a cycle offset are consecutive: nothing
\* but the reads of the assertions between them lies between them.
C15_StepsPositive ==
    [][ BuildsPhase =>
          /\ \A k \in DOMAIN Emitted : Emitted[k][1] = "s" => Emitted[k][2] >= 1
          /\ \A n, n2 \in DOMAIN Built.checks :
                (n < n2 /\ Built.checks[n][4] = Built.checks[n2][4]) =>
                    NthRead(Emitted, n2) - NthRead(Emitted, n) = n2 - n ]_vars

\* The commands of a phase with two assertions at one cycle offset and a third
\* at a later one have been emitted.
C15_Witness ==
    /\ pc = "phases"
    /\ phase_idx = 1
    /\ Len(test.phases[1].checks) = 3
    /\ test.phases[1].checks[1][4] = test.phases[1].checks[2][4]
    /\ test.phases[1].checks[2][4] < test.phases[1].checks[3][4]

\* C16: in a phase with assertions, the step commands of the checkpoints and
\* the final step command add up to max(1, phase.cycles div 3), and the final
\* step command is the one command after the last read.
C16_StepsReachBudget ==
    [][ (BuildsPhase /\ Built.checks # <<>>) =>
          LET cmds == Translated(Emitted)
              last == NthRead(cmds, Len(Built.checks))
          IN /\ StepSum(cmds) = AtLeastOne(Built.cycles \div 3)
             /\ Len(cmds) = last + 1
             /\ cmds[Len(cmds)][1] = "s" ]_vars

\* The commands of a phase with three assertions, a budget of 160 cycles and
\* the IRQ flag have been emitted.
C16_Witness ==
    /\ pc = "phases"
    /\ phase_idx = 1
    /\ Len(test.phases[1].checks) = 3
    /\ test.phases[1].cycles = 160
    /\ test.phases[1].irq_active
    /\ script_lines[Len(script_lines)] = <<"s", 43>>

----------------------------------------------------------------------------
\* The write commands of the script.

\* The vector bytes and the halt opcode, each with its default value: the reset
\* vector 0x8000, the IRQ, NMI and ABORT vectors 0xFF00, and STP at 0xFF00.
VectorDefault ==
    (65532 :> 0) @@ (65533 :> 128) @@ (65534 :> 0) @@ (65535 :> 255) @@
    (65530 :> 0) @@ (65531 :> 255) @@ (65528 :> 0) @@ (65529 :> 255) @@ (65280 :> 219)

\* The addresses the phases write.
Written(phases) ==
    UNION { { phases[k].pokes[j][1] : j \in DOMAIN phases[k].pokes } : k \in DOMAIN phases }

\* The vector addresses that no phase of the parsed test writes.
Unwritten == DOMAIN VectorDefault \ Written(test0.phases)

\* C17: in the first call on a parsed test, the script starts with one default
\* write for each vector address that no phase of the test writes, carrying
\* the default value, and with none for an address that a phase writes; the
\* commands of the phases follow them.
C17_DefaultVectors ==
    (calls = 1 /\ pc # "call" /\ test0.phases # <<>>) =>
        /\ Len(script_lines) >= Cardinality(Unwritten)
        /\ \A a \in Unwritten :
              \E k \in 1..Cardinality(Unwritten) :
                  script_lines[k] = <<"w", a, VectorDefault[a]>>
        /\ (pc = "phases" /\ phase_idx = 0) => Len(script_lines) = Cardinality(Unwritten)

\* The first call on a test of two phases, the first writing the reset vector
\* and the second the IRQ vector low byte and the halt opcode, has emitted its
\* five default writes.
C17_Witness ==
    /\ calls = 1
    /\ pc = "phases"
    /\ phase_idx = 0
    /\ Len(test0.phases) = 2
    /\ 65532 \in Written(<<test0.phases[1]>>)
    /\ 65534 \in Written(<<test0.phases[2]>>)
    /\ Len(script_lines) = 5

\* A phase triggers an interrupt line.
UsesInterrupts(ph) == ph.irq_active \/ ph.nmi_active \/ ph.abort_active

\* The writes of a phase that survive vector normalization and de-duplication:
\* its own writes without those to the reset vector and, in an interrupt phase
\* that writes 0xFFF8 and 0xFFF9, without those to 0xFFFA and 0xFFFB; then
\* the fixed reset vector, and the default IRQ vector and halt opcode where
\* the phase wrote no 0xFFFE and no 0xFF00.
Surviving(ph) ==
    LET own == Written(<<ph>>)
        Kept(p) == /\ p[1] \notin {65532, 65533}
                   /\ ~(/\ UsesInterrupts(ph)
                         /\ p[1] \in {65530, 65531}
                         /\ {65528, 65529} \subseteq own)
    IN SelectSeq(ph.pokes, Kept)
         \o << <<65532, 0>>, <<65533, 128>> >>
         \o (IF 65534 \in own THEN <<>> ELSE << <<65534, 0>>, <<65535, 255>> >>)
         \o (IF 65280 \in own THEN <<>> ELSE << <<65280, 219>> >>)

RECURSIVE MirroredCount(_)
\* The number of writes, one below 0x10000 counted twice.
MirroredCount(pokes) ==
    IF pokes = <<>> THEN 0
    ELSE (IF Head(pokes)[1] < 65536 THEN 2 ELSE 1) + MirroredCount(Tail(pokes))

RECURSIVE PhasesCount(_)
PhasesCount(phases) ==
    IF phases = <<>> THEN 0
    ELSE MirroredCount(Surviving(Head(phases))) + PhasesCount(Tail(phases))

WriteCommands == Cardinality({k \in DOMAIN script_lines : script_lines[k][1] = "w"})

\* C18 as claimed: the write commands of the finished script of a parsed test
\* are as many as the surviving writes of its phases, one below 0x10000
\* counted twice.
C18_WriteCount ==
    (calls = 1 /\ pc = "subprocess") => WriteCommands = PhasesCount(test0.phases)

\* C18 as amended: the write commands of the finished script of a parsed test
\* are as many as the surviving writes of its phases, one below 0x10000
\* counted twice, plus one for each default vector write at its start.
C18_WriteCountWithDefaults ==
    (calls = 1 /\ pc = "subprocess") =>
        WriteCommands = PhasesCount(test0.phases) + Cardinality(Unwritten)

\* The finished script of a test of two phases, an interrupt phase writing
\* 0xFFF8 to 0xFFFD and a phase writing at 0x10000.
C18_Witness ==
    /\ calls = 1
    /\ pc = "subprocess"
    /\ Len(test0.phases) = 2
    /\ UsesInterrupts(test0.phases[1])
    /\ {65528, 65529, 65530, 65531, 65532, 65533} \subseteq Written(<<test0.phases[1]>>)
    /\ 65536 \in Written(<<test0.phases[2]>>)

\* The phase of the parsed test that the step builds.
Source == test0.phases[phase_idx + 1]

\* C19: among the commands of a phase, every write below 0x10000 is directly
\* followed by the write of the same value at the address plus 0x10000; a
\* write of the phase at 0x10000 or above is emitted as often as the phase
\* holds it and is not followed by a mirror.
C19_Mirror ==
    [][ BuildsPhase =>
          /\ \A k \in DOMAIN Emitted :
                (Emitted[k][1] = "w" /\ Emitted[k][2] < 65536) =>
                    Emitted[k + 1] = <<"w", Emitted[k][2] + 65536, Emitted[k][3]>>
          /\ \A j \in DOMAIN Source.pokes :
                Source.pokes[j][1] >= 65536 =>
                    /\ Cardinality({k \in DOMAIN Emitted :
                                      Emitted[k] = <<"w", Source.pokes[j][1], Source.pokes[j][2]>>})
                         = Cardinality({n \in DOMAIN Source.pokes :
                                          Source.pokes[n] = Source.pokes[j]})
                    /\ \A k \in DOMAIN Emitted :
                          Emitted[k] = <<"w", Source.pokes[j][1], Source.pokes[j][2]>> =>
                              Emitted[k + 1]
                                # <<"w", Source.pokes[j][1] + 65536, Source.pokes[j][2]>> ]_vars

\* The commands of a phase that writes at 0x10000 and below it have been
\* emitted.
C19_Witness ==
    /\ pc = "phases"
    /\ phase_idx = 1
    /\ 65536 \in Written(<<test0.phases[1]>>)
    /\ \E k \in DOMAIN script_lines : script_lines[k] = <<"w", 65536, 234>>
    /\ \E k \in DOMAIN script_lines : script_lines[k] = <<"w", 65534 + 65536, 16>>

\* The commands hold the write of value v at address a.
HasWrite(cmds, a, v) == \E k \in DOMAIN cmds : cmds[k] = <<"w", a, v>>

\* The step builds an interrupt phase whose source writes include 0xFFFA,
\* 0xFFFB, 0xFFFC and 0xFFFD.
BuildsVectorPhase ==
    /\ BuildsPhase
    /\ UsesInterrupts(Source)
    /\ {65530, 65531, 65532, 65533} \subseteq Written(<<Source>>)

\* The reset vector among the commands is the fixed one, not the source's.
ResetVectorFixed ==
    /\ HasWrite(Emitted, 65532, 0)
    /\ HasWrite(Emitted, 65533, 128)
    /\ \A k \in DOMAIN Emitted :
          (Emitted[k][1] = "w" /\ Emitted[k][2] = 65532) => Emitted[k][3] = 0
    /\ \A k \in DOMAIN Emitted :
          (Emitted[k][1] = "w" /\ Emitted[k][2] = 65533) => Emitted[k][3] = 128

\* The source writes to 0xFFFA and 0xFFFB are among the commands.
NmiVectorKept ==
    \A j \in DOMAIN Source.pokes :
        Source.pokes[j][1] \in {65530, 65531} =>
            HasWrite(Emitted, Source.pokes[j][1], Source.pokes[j][2])

\* C20 as claimed: the commands of such a phase hold its source writes to
\* 0xFFFA and 0xFFFB, and 0x00 at 0xFFFC and 0x80 at 0xFFFD in place of the
\* source values.
C20_VectorsKept == [][ BuildsVectorPhase => (NmiVectorKept /\ ResetVectorFixed) ]_vars

\* C20 as amended: the commands of such a phase hold 0x00 at 0xFFFC and 0x80
\* at 0xFFFD in place of the source values; they hold the source writes to
\* 0xFFFA and 0xFFFB unless the phase also writes 0xFFF8 and 0xFFF9, and then
\* they hold no write to 0xFFFA or 0xFFFB.
C20_VectorsKeptUnlessAbortWritten ==
    [][ BuildsVectorPhase =>
          /\ ResetVectorFixed
          /\ IF {65528, 65529} \subseteq Written(<<Source>>)
             THEN \A k \in DOMAIN Emitted :
                      Emitted[k][1] = "w" => Emitted[k][2] \notin {65530, 65531}
             ELSE NmiVectorKept ]_vars

\* The commands of an NMI phase that writes 0xFFFA to 0xFFFD and neither
\* 0xFFF8 nor 0xFFF9 have been emitted.
C20_Witness ==
    /\ pc = "phases"
    /\ phase_idx = 1
    /\ calls = 1
    /\ test0.phases[1].nmi_active
    /\ Written(test0.phases) = {65530, 65531, 65532, 65533}
    /\ HasWrite(script_lines, 65530, 16)
    /\ HasWrite(script_lines, 65532, 0)

----------------------------------------------------------------------------
\* The commands of one phase.

RECURSIVE PrimaryWrites(_)
\* The writes at the head of cmds without their mirrors, as (address, value).
PrimaryWrites(cmds) ==
    IF cmds = <<>> \/ Head(cmds)[1] # "w" THEN <<>>
    ELSE << <<Head(cmds)[2], Head(cmds)[3]>> >>
           \o PrimaryWrites(IF Head(cmds)[2] < 65536 THEN Tail(Tail(cmds)) ELSE Tail(cmds))

\* The source writes of the phase to addresses other than 0xFFFC and 0xFFFD.
OwnWrites == SelectSeq(Source.pokes, LAMBDA p : p[1] \notin {65532, 65533})

\* C21: the commands of a phase without interrupt flag start with every
\* source write to an address other than 0xFFFC and 0xFFFD, in source order,
\* and the commands of every phase hold a write to 0xFFFC and one to 0xFFFD.
C21_NoSuppressionWithoutInterrupt ==
    [][ BuildsPhase =>
          /\ ~UsesInterrupts(Source) =>
                /\ Len(PrimaryWrites(Emitted)) >= Len(OwnWrites)
                /\ SubSeq(PrimaryWrites(Emitted), 1, Len(OwnWrites)) = OwnWrites
          /\ \E k \in DOMAIN Emitted : Emitted[k][1] = "w" /\ Emitted[k][2] = 65532
          /\ \E k \in DOMAIN Emitted : Emitted[k][1] = "w" /\ Emitted[k][2] = 65533 ]_vars

\* The commands of a phase without interrupt flag that writes 0xFFF8 to 0xFFFD
\* have been emitted, the write to 0xFFFA among them.
C21_Witness ==
    /\ pc = "phases"
    /\ phase_idx = 1
    /\ calls = 1
    /\ ~UsesInterrupts(test0.phases[1])
    /\ {65528, 65529, 65530, 65531, 65532, 65533} \subseteq Written(<<test0.phases[1]>>)
    /\ HasWrite(script_lines, 65530, 16)

\* The value of the last source write of the phase to address a.
OwnValue(a) ==
    Source.pokes[MaxOf({j \in DOMAIN Source.pokes : Source.pokes[j][1] = a})][2]

\* C22: for 0xFFFE, 0xFFFF and 0xFF00, when the phase itself writes the
\* address, the last write to it before the phase's reset command carries the
\* phase's own value and the commands hold no other write to it.
C22_OwnVectorKept ==
    [][ BuildsPhase =>
          \A a \in {65534, 65535, 65280} :
              a \in Written(<<Source>>) =>
                  /\ LastWriteBefore(Emitted, ResetPosition(Emitted), a) = OwnValue(a)
                  /\ Cardinality({k \in DOMAIN Emitted :
                                    Emitted[k][1] = "w" /\ Emitted[k][2] = a})
                       = Cardinality({j \in DOMAIN Source.pokes : Source.pokes[j][1] = a})
      ]_vars

\* The positions of the reset commands of the script.
Resets == {k \in DOMAIN script_lines : script_lines[k][1] = "reset"}

\* The commands from the n-th reset command up to the next one, or to the end.
AfterResetNo(n) ==
    LET from == CHOOSE r \in Resets : Cardinality({q \in Resets : q <= r}) = n
        later == {q \in Resets : q > from}
    IN SubSeq(script_lines, from,
              IF later = {} THEN Len(script_lines) ELSE MinOf(later) - 1)

\* C23: the finished script of a test holds one reset command per phase, in
\* phase order (the n-th is followed by the reads of the n-th phase); after
\* every write command, the first command that is no write is a reset; the
\* last command is q and no other command is.
C23_ScriptStructure ==
    (pc = "subprocess") =>
        /\ Cardinality(Resets) = Len(test.phases)
        /\ \A n \in DOMAIN test.phases :
              Cardinality({k \in DOMAIN AfterResetNo(n) : AfterResetNo(n)[k][1] = "m"})
                = Len(test.phases[n].checks)
        /\ \A k \in DOMAIN script_lines :
              script_lines[k][1] = "w" =>
                  LET rest == {j \in (k + 1)..Len(script_lines) : script_lines[j][1] # "w"}
                  IN rest # {} /\ script_lines[MinOf(rest)][1] = "reset"
        /\ script_lines[Len(script_lines)] = <<"q">>
        /\ \A k \in 1..(Len(script_lines) - 1) : script_lines[k][1] # "q"

\* The finished script of a test of two phases with one and two assertions.
C23_Witness ==
    /\ pc = "subprocess"
    /\ Len(test.phases) = 2
    /\ Len(test.phases[1].checks) = 1
    /\ Len(test.phases[2].checks) = 2

\* The number of commands named name among cmds.
Named(cmds, name) == Cardinality({k \in DOMAIN cmds : cmds[k][1] = name})

\* C24: a phase emits nmi once if its NMI flag is set and never otherwise,
\* and abort once if its ABORT flag is set and never otherwise; they follow
\* the reset command directly, nmi before abort.
C24_EdgeTriggered ==
    [][ BuildsPhase =>
          LET r == ResetPosition(Emitted) IN
          /\ Named(Emitted, "nmi") = (IF Built.nmi_active THEN 1 ELSE 0)
          /\ Named(Emitted, "abort") = (IF Built.abort_active THEN 1 ELSE 0)
          /\ Built.nmi_active => Emitted[r + 1] = <<"nmi">>
          /\ Built.abort_active =>
                Emitted[r + 1 + (IF Built.nmi_active THEN 1 ELSE 0)] = <<"abort">> ]_vars

\* The commands of a phase with the NMI, the ABORT and the IRQ flag and with
\* assertions have been emitted.
C24_Witness ==
    /\ pc = "phases"
    /\ phase_idx = 1
    /\ test.phases[1].nmi_active
    /\ test.phases[1].abort_active
    /\ test.phases[1].irq_active
    /\ test.phases[1].checks # <<>>

\* C25: a phase emits irq 1 once if its IRQ flag is set and no irq command
\* otherwise; irq 1 directly follows s 3, and the pair directly follows the
\* reset, nmi and abort commands of the phase, before every read, run and
\* other step command.
C25_LevelTriggered ==
    [][ BuildsPhase =>
          LET r == ResetPosition(Emitted)
              p == r + (IF Built.nmi_active THEN 1 ELSE 0)
                     + (IF Built.abort_active THEN 1 ELSE 0) + 2
          IN /\ Named(Emitted, "irq") = (IF Built.irq_active THEN 1 ELSE 0)
             /\ Built.irq_active =>
                   /\ Emitted[p] = <<"irq", 1>>
                   /\ Emitted[p - 1] = <<"s", 3>>
                   /\ \A k \in 1..(p - 2) : Emitted[k][1] \notin {"s", "m", "r"} ]_vars

\* The commands of a phase with the IRQ and the NMI flag and with assertions
\* at two cycle offsets have been emitted.
C25_Witness ==
    /\ pc = "phases"
    /\ phase_idx = 1
    /\ test.phases[1].irq_active
    /\ test.phases[1].nmi_active
    /\ ~test.phases[1].abort_active
    /\ Len(test.phases[1].checks) = 2

----------------------------------------------------------------------------
\* C26, C27: the byte writes a line contributes.

\* A step that reads a line of directives inside a test.
Consumes == i' = i + 1 /\ line'.hdr = 0 /\ current_test # None

\* The byte writes the step adds, in order: to the current phase, or to the
\* pending list when the phase already has an assertion.
Received ==
    IF current_phase[1].checks = <<>>
    THEN SubSeq(current_phase'[1].pokes, Len(current_phase[1].pokes) + 1,
                Len(current_phase'[1].pokes))
    ELSE SubSeq(pending_pokes', Len(pending_pokes) + 1, Len(pending_pokes'))

\* The word writes and the byte writes of a line, in textual order.
Words(l) == SelectSeq(l.dirs, LAMBDA d : d.k = "poke16")
Bytes(l) == SelectSeq(l.dirs, LAMBDA d : d.k = "poke")

\* C26: a word write of value V at address A adds exactly the two byte writes
\* (A, V mod 256) and (A + 1, (V div 256) mod 256), adjacent and in that order,
\* to the current phase or to the pending list: the j-th word write of a line
\* gives the (2j-1)-th and the 2j-th write the line adds.
C26_WordWriteBytes ==
    [][Consumes =>
         /\ Len(Received) >= 2 * Len(Words(line'))
         /\ \A j \in DOMAIN Words(line') :
              /\ Received[2 * j - 1] = <<Words(line')[j].a, Words(line')[j].v % 256>>
              /\ Received[2 * j] =
                   <<Words(line')[j].a + 1, (Words(line')[j].v \div 256) % 256>>]_vars

\* The line with two word writes was read after an assertion: its four byte
\* writes are pending, the value of more than 16 bits cut to its low two bytes.
C26_Witness ==
    /\ pc = "parse"
    /\ line = L_words
    /\ current_phase # None
    /\ current_phase[1].checks # <<>>
    /\ Len(pending_pokes) >= 4
    /\ SubSeq(pending_pokes, Len(pending_pokes) - 3, Len(pending_pokes)) =
         << <<65534, 69>>, <<65535, 35>>, <<512, 52>>, <<513, 18>> >>

\* C27: a line with k byte writes and j word writes adds k + 2j byte writes.
C27_WriteCount ==
    [][Consumes =>
         Len(Received) = Len(Bytes(line')) + 2 * Len(Words(line'))]_vars

----------------------------------------------------------------------------
\* C28: the interrupt flags of the current phase.

\* Some line read while the current phase was current assigned sig to '0'.
Asserted(sig) == \E k \in DOMAIN history : history[k].k = sig /\ history[k].v = 0

\* C28: a flag of the current phase is true exactly when some line read while
\* the phase was current assigned the signal to '0'; an assignment to '1' never
\* clears it and nothing carries over from an earlier phase.
C28_FlagIffAsserted ==
    current_phase # None =>
        /\ current_phase[1].irq_active = Asserted("irq")
        /\ current_phase[1].nmi_active = Asserted("nmi")
        /\ current_phase[1].abort_active = Asserted("abort")

----------------------------------------------------------------------------
\* C29: one Test per test-boundary marker.

\* The numbers of a list of tests.
NumbersOf(ts) == [k \in DOMAIN ts |-> ts[k].number]

\* The numbers of the tests found so far: the saved ones, then the open one.
MarkersRead ==
    NumbersOf(tests) \o (IF current_test = None THEN <<>> ELSE <<current_test[1].number>>)

\* C29: the parser returns exactly one Test per test-boundary marker, in the
\* textual order of the markers, the open test at the end of the input
\* included: reading a marker adds its number after the tests found so far,
\* no other line adds or removes a test, and the tests returned are the tests
\* found; a line read before the first marker changes nothing of the parse.
C29_OneTestPerMarker ==
    [][/\ (pc = "parse" /\ i' = i + 1 /\ line'.hdr # 0) =>
             MarkersRead' = Append(MarkersRead, line'.hdr)
       /\ (pc \in {"parse", "body"} /\ pc' \in {"parse", "body"}
             /\ ~(i' = i + 1 /\ line'.hdr # 0)) =>
             MarkersRead' = MarkersRead
       /\ (pc = "parse" /\ i' = i + 1 /\ current_test = None /\ line'.hdr = 0) =>
             UNCHANGED <<tests, current_test, current_phase, phase_has_reset,
                         pending_pokes>>
       /\ (pc = "parse" /\ pc' = "parsed") => NumbersOf(tests') = MarkersRead]_vars

\* Five lines were read, the first a write before any marker, among them the
\* markers of test 2 and then of test 1: the parser returned test 2, with its
\* assertion, and then the open test 1, and the first line's write is in neither.
C29_Witness ==
    /\ pc = "parsed"
    /\ i = 5
    /\ NumbersOf(tests) = <<2, 1>>
    /\ Len(tests[1].phases) = 1
    /\ tests[1].phases[1].pokes = <<>>
    /\ tests[1].phases[1].checks # <<>>
    /\ tests[2].phases # <<>>
    /\ tests[2].phases[1].pokes = << <<32768, 169>> >>

----------------------------------------------------------------------------
\* C30: tests without assertions.

\* A step of the loop of main over a test that has no assertion.
Skips ==
    /\ pc = "loop"
    /\ test_idx < Len(tests)
    /\ test_idx' = test_idx + 1
    /\ ChecksOf(tests[test_idx + 1].phases) = <<>>

\* C30: a test with zero assertions is never executed (no script is built, the
\* emulator is not called) and the passed and failed totals stay as they were.
C30_SkippedNotRun ==
    [][Skips => UNCHANGED <<script_lines, calls, outcome, output, results, verdicts,
                            total_passed, total_failed>>]_vars

\* The second test, which has a phase with a write and no assertion, was
\* skipped after the first one was run and failed: one call, one verdict.
C30_Witness ==
    /\ pc = "loop"
    /\ test_idx = 2
    /\ ChecksOf(tests[1].phases) # <<>>
    /\ tests[2].phases # <<>>
    /\ ChecksOf(tests[2].phases) = <<>>
    /\ calls = 1
    /\ Len(verdicts) = 1
    /\ total_failed > 0

----------------------------------------------------------------------------
\* C31: the loop of main over the tests.

\* How many of the first n tests have an assertion.
Runnable(n) == Cardinality({k \in 1..n : ChecksOf(tests[k].phases) # <<>>})

\* C31: the tests are executed one at a time in list order: when the loop is
\* at test n, the emulator was called once for each of the first n tests that
\* has an assertion and every call has returned its result; a step of the loop
\* takes the next test of the list and calls the emulator for it exactly when
\* it has an assertion; and the loop reaches the end of the list, whatever the
\* results of the tests (failure, timeout, exception).
C31_OneAtATime ==
    /\ [](pc \in {"loop", "exited"} =>
            /\ test_idx <= Len(tests)
            /\ calls = Runnable(test_idx)
            /\ Len(verdicts) = calls)
    /\ [][pc = "loop" =>
            \/ UNCHANGED <<test_idx, calls, verdicts>>
            \/ /\ test_idx' = test_idx + 1
               /\ IF ChecksOf(tests[test_idx + 1].phases) # <<>>
                  THEN /\ calls' = calls + 1
                       /\ test0' = tests[test_idx + 1]
                       /\ verdicts' = Append(verdicts, results')
                  ELSE UNCHANGED <<calls, verdicts>>]_vars
    /\ (pc = "loop") ~>
          (pc = "exited" /\ test_idx = Len(tests) /\ calls = Runnable(Len(tests)))

\* main has exited after a list of two tests with assertions: the first timed
\* out, the second was executed after it and passed.
C31_Witness ==
    /\ pc = "exited"
    /\ Len(tests) = 2
    /\ test_idx = 2
    /\ calls = 2
    /\ Len(verdicts) = 2
    /\ verdicts[1].errors = << <<"Timeout">> >>
    /\ verdicts[1].failed > 0
    /\ verdicts[2].failed = 0
    /\ verdicts[2].passed > 0

----------------------------------------------------------------------------
\* C32: the vectors and the halt opcode before the first reset.

\* The addresses written by the commands of the script before its first reset.
WrittenBeforeReset ==
    LET first == MinOf(Resets)
    IN {script_lines[k][2] : k \in {j \in 1..(first - 1) : script_lines[j][1] = "w"}}

\* C32: in every script, each of the nine addresses 0xFFF8..0xFFFF and 0xFF00
\* is the target of a write command before the first reset command.
C32_VectorsBeforeReset ==
    Resets # {} => DOMAIN VectorDefault \subseteq WrittenBeforeReset

----------------------------------------------------------------------------
\* C33: the IRQ level over the phases of a script.

\* The IRQ level when command k of the script executes: raised by an earlier
\* irq 1 and not lowered since by an irq 0.
IrqAsserted(k) ==
    \E j \in 1..(k - 1) :
        /\ script_lines[j] = <<"irq", 1>>
        /\ \A q \in (j + 1)..(k - 1) : script_lines[q] # <<"irq", 0>>

\* The phase command k belongs to: the number of reset commands up to it.
PhaseOf(k) == Cardinality({r \in Resets : r <= k})

\* C33: the IRQ level is asserted while a step, run or read command of a phase
\* executes only if that phase has the IRQ flag: a later phase without the flag
\* does not run under the IRQ level an earlier phase has raised.
C33_IrqOnlyInItsPhase ==
    \A k \in DOMAIN script_lines :
        (script_lines[k][1] \in {"s", "r", "m"} /\ IrqAsserted(k)) =>
            test.phases[PhaseOf(k)].irq_active

----------------------------------------------------------------------------
\* C34: the shape of the phases of a parsed test.

\* Every phase has a write or an assertion, every phase but the last has an
\* assertion, every phase but the first has a write.
WellFormed(t) ==
    LET n == Len(t.phases) IN
    /\ \A k \in 1..n : t.phases[k].pokes # <<>> \/ t.phases[k].checks # <<>>
    /\ \A k \in 1..(n - 1) : t.phases[k].checks # <<>>
    /\ \A k \in 2..n : t.phases[k].pokes # <<>>

\* The positions of the run commands and of the reset commands of a script.
RunsIn(cmds) == {k \in DOMAIN cmds : cmds[k][1] = "r"}
ResetsIn(cmds) == {k \in DOMAIN cmds : cmds[k][1] = "reset"}

\* A script has at most one run command, and it comes after the last reset.
OneRunAtEnd(cmds) ==
    /\ Cardinality(RunsIn(cmds)) <= 1
    /\ \A k \in RunsIn(cmds) : \A r \in ResetsIn(cmds) : r < k

\* C34: in every test the parser has saved, every phase has at least one write
\* or one assertion, every phase except the last has an assertion and every
\* phase except the first has a write; the script of the test has at most one
\* run command, and that one belongs to the last phase.
C34_PhaseShape ==
    \A k \in DOMAIN tests :
        /\ WellFormed(tests[k])
        /\ tests[k].phases # <<>> => OneRunAtEnd(ScriptOf(tests[k]))

\* The parser has returned a test of two phases, the first with an assertion
\* and the second with a write and no assertion: its script has two resets and
\* one run command.
C34_Witness ==
    /\ pc = "parsed"
    /\ Len(tests) = 1
    /\ Len(tests[1].phases) = 2
    /\ tests[1].phases[1].checks # <<>>
    /\ tests[1].phases[2].pokes # <<>>
    /\ tests[1].phases[2].checks = <<>>
    /\ Cardinality(ResetsIn(ScriptOf(tests[1]))) = 2
    /\ Cardinality(RunsIn(ScriptOf(tests[1]))) = 1

----------------------------------------------------------------------------
\* C35: the counts run_emulator_test_v2 returns.

\* C35: on every return of run_emulator_test_v2 (the emulator completed with
\* whatever output, timed out or raised another exception, or the test has no
\* phase), passed plus failed is the number of assertions of the test.
C35_CountsAddUp ==
    (pc = "returned" /\ calls >= 1) =>
        results.passed + results.failed = Len(ChecksOf(test.phases))

\* A call on a test of two phases with three assertions has returned after the
\* emulator completed: some assertions passed and some failed.
C35_Witness ==
    /\ pc = "returned"
    /\ outcome = "completed"
    /\ Len(test.phases) = 2
    /\ Len(ChecksOf(test.phases)) = 3
    /\ results.passed >= 1
    /\ results.failed >= 1

----------------------------------------------------------------------------
\* C36: the order of the reads of a script.

\* The recorded cycle offsets of a phase never decrease along its checks.
OffsetsAscend(ph) ==
    \A a, b \in DOMAIN ph.checks : a < b => ph.checks[a][4] <= ph.checks[b][4]

\* The addresses of the read commands of a script, and of a list of checks.
ReadsOf(cmds) ==
    LET ms == SelectSeq(cmds, LAMBDA c : c[1] = "m") IN [k \in DOMAIN ms |-> ms[k][2]]
CheckedAddresses(checks) == [k \in DOMAIN checks |-> checks[k][1]]

\* The addresses of the assertions read while the current phase was current,
\* in textual order.
AssertedInText ==
    LET cs == SelectSeq(history, LAMBDA e : e.k = "check") IN [k \in DOMAIN cs |-> cs[k].a]

\* C36: within a phase the recorded cycle offsets never decrease in textual
\* order, and the read commands of a script are the assertions of the test in
\* textual order, one read per assertion: the checks of the current phase are
\* the assertions read in textual order, and the reads of its commands and of
\* the script of every saved test follow the order of the checks.
C36_ReadsInTextualOrder ==
    /\ current_phase # None =>
          /\ OffsetsAscend(current_phase[1])
          /\ CheckedAddresses(current_phase[1].checks) = AssertedInText
          /\ ReadsOf(RunCmds(current_phase[1])) = AssertedInText
    /\ \A k \in DOMAIN tests :
          /\ \A j \in DOMAIN tests[k].phases : OffsetsAscend(tests[k].phases[j])
          /\ tests[k].phases # <<>> =>
                ReadsOf(ScriptOf(tests[k])) = CheckedAddresses(ChecksOf(tests[k].phases))

\* The parser has returned a test whose phase has assertions on two addresses
\* at two cycle offsets, and the script reads them in the order of the text.
C36_Witness ==
    /\ pc = "parsed"
    /\ Len(tests) = 1
    /\ Len(tests[1].phases) = 1
    /\ Len(tests[1].phases[1].checks) = 3
    /\ tests[1].phases[1].checks[1][4] < tests[1].phases[1].checks[3][4]
    /\ tests[1].phases[1].checks[1][1] # tests[1].phases[1].checks[2][1]
    /\ ReadsOf(ScriptOf(tests[1])) = CheckedAddresses(tests[1].phases[1].checks)
    /\ AssertedInText = CheckedAddresses(tests[1].phases[1].checks)

----------------------------------------------------------------------------
\* C37: the assertions of a test over its phases.

\* The assertions recorded for the open test, over its saved phases and the
\* current one, without their cycle offsets.
Recorded ==
    IF current_test = None THEN <<>>
    ELSE DropCycles(ChecksOf(current_test[1].phases) \o current_phase[1].checks)

\* The memory assertions of a line, in textual order.
LineChecks(l) ==
    LET cs == SelectSeq(l.dirs, LAMBDA d : d.k = "check")
    IN [k \in DOMAIN cs |-> <<cs[k].a, cs[k].v, cs[k].m>>]

\* The assertions of the test saved last.
LastSaved(ts) == DropCycles(ChecksOf(ts[Len(ts)].phases))

\* C37: parsing loses and duplicates no assertion: a line read inside a test
\* adds its memory assertions, in textual order, after the assertions recorded
\* for the test; starting a new phase changes none of them; the test saved at
\* the next marker or at the end of the input holds exactly the recorded
\* assertions, over its phases in order; a saved test is not changed.
C37_AssertionsKept ==
    [][/\ Consumes => Recorded' = Recorded \o LineChecks(line')
       /\ (pc = "parse" /\ pc' = "body") => Recorded' = Recorded
       /\ (pc = "parse" /\ i' = i + 1 /\ line'.hdr # 0) =>
             /\ Recorded' = <<>>
             /\ current_test # None =>
                   Len(tests') = Len(tests) + 1 /\ LastSaved(tests') = Recorded
       /\ (pc = "parse" /\ pc' = "parsed" /\ current_test # None) =>
             Len(tests') = Len(tests) + 1 /\ LastSaved(tests') = Recorded
       /\ (pc \in {"parse", "body"}) =>
             /\ Len(tests') >= Len(tests)
             /\ \A k \in DOMAIN tests : tests'[k] = tests[k]]_vars

\* The parser has returned a test of two phases each of which holds one of the
\* two assertions read, the second phase started by a reset after a write.
C37_Witness ==
    /\ pc = "parsed"
    /\ i = 5
    /\ Len(tests) = 1
    /\ Len(tests[1].phases) = 2
    /\ Len(tests[1].phases[1].checks) = 1
    /\ Len(tests[1].phases[2].checks) = 1
    /\ tests[1].phases[2].pokes # <<>>
    /\ Recorded = LastSaved(tests)

====
